---- MODULE Spec2Model ----
(***************************************************************************)
(* Blood report analyzer: reference data (config/settings.py), the          *)
(* plausibility validator and the extraction pipeline                      *)
(* (utils/pdf_processor.py, utils/llm_clients.py), the emergency           *)
(* aggregation (agents/recommendation_agent.py) and the page's session     *)
(* (app.py).                                                               *)
(*                                                                         *)
(* Numbers.  Every measurement, range bound and threshold is written in    *)
(* hundredths of its unit (13.0 is 1300, 0.27 is 27, 150000 is 15000000),   *)
(* so that all constants of the reference tables are integers and every    *)
(* comparison of the code is an integer comparison.                        *)
(***************************************************************************)
EXTENDS Integers, Sequences, FiniteSets, TLC

VARIABLES
    \* -- calls of the pure functions of the reference data store / validator
    op,             \* which function was called last ("none" before any call)
    v_data,         \* validate_extracted_data: the input mapping (ordered dict)
    v_out,          \* validate_extracted_data: its outcome
    r_param,        \* get_normal_range: parameter
    r_gender,       \* get_normal_range: gender argument
    r_out,          \* get_normal_range: its outcome
    c_param,        \* is_critical_value: parameter
    c_value,        \* is_critical_value: value
    c_out,          \* is_critical_value: its result dict
    call_args,      \* any other function called: its arguments
    call_out,       \* any other function called: its outcome
    e_call,         \* check_emergency_indicators under way: whose, and its blood_data
    e_pc,           \* its position: the loop over the readings, a named rule, the end
    e_i,            \* the reading the loop is at
    emergency_indicators,   \* its dict
    \* -- one run of get_comprehensive_extraction and the screening of its result
    pc,             \* the step the run is at
    pdf_file,       \* the uploaded file: readable or not, and its pages' texts
    model_choice,   \* the model chosen in the sidebar
    text,           \* the text extracted from the file
    trace,          \* what happened so far in the run, in order
    llm_result,     \* what the client handed back to the processor
    extraction_result,  \* what extract_blood_values_with_llm returned
    extraction_results,  \* the outcome of get_comprehensive_extraction
    session_state,  \* st.session_state: the keys present and their values
    analysis,       \* status of each value and the emergency indicators
    \* -- processors and the runs of their pattern methods
    processors,     \* each BloodReportProcessor created: its attributes
    runs            \* the calls of parse_blood_values and extract_patient_info, in order

refvars == <<op, v_data, v_out, r_param, r_gender, r_out, c_param, c_value, c_out,
             call_args, call_out>>

pipevars == <<pc, pdf_file, model_choice, text, trace, llm_result, extraction_result,
              extraction_results, session_state, analysis>>

emvars == <<e_call, e_pc, e_i, emergency_indicators>>

procvars == <<processors, runs>>

vars == <<refvars, pipevars, emvars, procvars>>

(***************************************************************************)
(* Settings.NORMAL_RANGES.  A stored range is a tuple or a dict keyed by   *)
(* gender; `kind` is the runtime type that isinstance() inspects.          *)
(***************************************************************************)
Inf == 2000000000

Fixed(lo, hi) == [kind |-> "tuple", pair |-> <<lo, hi>>]

ByGender(m, f) == [kind |-> "dict", male |-> m, female |-> f]

NORMAL_RANGES ==
    [ hemoglobin           |-> ByGender(<<1300, 1700>>, <<1200, 1550>>),
      white_blood_cells    |-> Fixed(400000, 1100000),
      red_blood_cells      |-> ByGender(<<450, 550>>, <<400, 500>>),
      platelets            |-> Fixed(15000000, 41000000),
      hematocrit           |-> ByGender(<<4000, 5000>>, <<3600, 4600>>),
      mcv                  |-> Fixed(8300, 10100),
      mch                  |-> Fixed(2700, 3200),
      mchc                 |-> Fixed(3250, 3450),
      rdw                  |-> Fixed(1160, 1400),
      neutrophils          |-> Fixed(5000, 6200),
      lymphocytes          |-> Fixed(2000, 4000),
      eosinophils          |-> Fixed(0, 600),
      monocytes            |-> Fixed(0, 1000),
      basophils            |-> Fixed(0, 200),
      glucose              |-> Fixed(7000, 10000),
      creatinine           |-> ByGender(<<70, 130>>, <<60, 110>>),
      urea                 |-> Fixed(700, 2000),
      bilirubin            |-> Fixed(30, 120),
      cholesterol          |-> Fixed(0, 20000),
      hdl                  |-> ByGender(<<4000, Inf>>, <<5000, Inf>>),
      ldl                  |-> Fixed(0, 10000),
      triglycerides        |-> Fixed(0, 15000),
      alt                  |-> ByGender(<<1000, 4000>>, <<700, 3500>>),
      ast                  |-> ByGender(<<1000, 4000>>, <<900, 3200>>),
      alkaline_phosphatase |-> Fixed(4400, 14700),
      hba1c                |-> Fixed(400, 560),
      fasting_insulin      |-> Fixed(260, 2490),
      tsh                  |-> Fixed(27, 420),
      t3                   |-> Fixed(8000, 20000),
      t4                   |-> Fixed(510, 1410),
      vitamin_d            |-> Fixed(2000, 5000),
      vitamin_b12          |-> Fixed(16000, 95000),
      folate               |-> Fixed(270, 1700),
      iron                 |-> ByGender(<<6500, 17600>>, <<5000, 17000>>),
      ferritin             |-> ByGender(<<1200, 30000>>, <<1200, 15000>>),
      troponin             |-> Fixed(0, 4),
      ck_mb                |-> Fixed(0, 630),
      esr                  |-> ByGender(<<0, 2200>>, <<0, 2900>>),
      crp                  |-> Fixed(0, 300),
      sodium               |-> Fixed(13600, 14500),
      potassium            |-> Fixed(350, 510),
      chloride             |-> Fixed(9800, 10700),
      calcium              |-> Fixed(850, 1020),
      magnesium            |-> Fixed(170, 220),
      total_protein        |-> Fixed(600, 830),
      albumin              |-> Fixed(350, 500),
      globulin             |-> Fixed(230, 340) ]

(***************************************************************************)
(* Settings.CRITICAL_VALUES.  A threshold dict holds critically_low,       *)
(* critically_high or both; `keys` is the set of keys present.             *)
(***************************************************************************)
Both(lo, hi) == [keys |-> {"critically_low", "critically_high"},
                 critically_low |-> lo, critically_high |-> hi]

HighOnly(hi) == [keys |-> {"critically_high"}, critically_low |-> 0,
                 critically_high |-> hi]

CRITICAL_VALUES ==
    [ hemoglobin        |-> Both(700, 2000),
      white_blood_cells |-> Both(200000, 2000000),
      platelets         |-> Both(5000000, 100000000),
      hematocrit        |-> Both(2000, 6000),
      glucose           |-> Both(5000, 40000),
      creatinine        |-> HighOnly(400),
      potassium         |-> Both(250, 600),
      sodium            |-> Both(12500, 16000),
      troponin          |-> HighOnly(4) ]

(***************************************************************************)
(* reasonable_ranges of validate_extracted_data (the sanity ranges).       *)
(***************************************************************************)
reasonable_ranges ==
    [ hemoglobin        |-> <<500, 2500>>,
      white_blood_cells |-> <<100, 5000>>,
      red_blood_cells   |-> <<200, 800>>,
      platelets         |-> <<5000, 100000>>,
      glucose           |-> <<3000, 50000>>,
      cholesterol       |-> <<5000, 50000>>,
      hdl               |-> <<1000, 15000>>,
      ldl               |-> <<1000, 30000>>,
      triglycerides     |-> <<2000, 100000>>,
      creatinine        |-> <<50, 1500>>,
      urea              |-> <<500, 15000>>,
      hba1c             |-> <<300, 2000>>,
      tsh               |-> <<10, 5000>>,
      vitamin_d         |-> <<500, 20000>>,
      vitamin_b12       |-> <<10000, 200000>> ]

(***************************************************************************)
(* Python values.  None is the gender "<None>" (no argument given); a      *)
(* mapping entry carries the JSON type of its value in `kind`: "num" (a    *)
(* number, in `value`), "null" (None) or "str" (any non-numeric value).     *)
(***************************************************************************)
None == "<None>"

Truthy(s) == s # None /\ s # ""

\* str.lower() on the gender strings the model passes around
lower(s) ==
    CASE s = "Male"   -> "male"
      [] s = "MALE"   -> "male"
      [] s = "Female" -> "female"
      [] s = "FEMALE" -> "female"
      [] OTHER        -> s

Min(a, b) == IF a <= b THEN a ELSE b

Max(a, b) == IF a >= b THEN a ELSE b

Returned(x) == [raised |-> "", value |-> x]

Raised(e) == [raised |-> e, value |-> <<>>]

(***************************************************************************)
(* Settings.get_normal_range                                                *)
(***************************************************************************)
gender_recognized_case_sensitive(gender, range_value) ==
    Truthy(gender) /\ gender \in (DOMAIN range_value) \ {"kind"}

gender_recognized(gender, range_value) ==
    Truthy(gender) /\ lower(gender) \in (DOMAIN range_value) \ {"kind"}

combined_range_male_only(range_value) == range_value.male

combined_range(range_value) ==
    <<Min(range_value.male[1], range_value.female[1]),
      Max(range_value.male[2], range_value.female[2])>>

\* the lookup without its first check: the range of every number, and no
\* error, for a parameter the table does not have
get_normal_range_or_any(parameter, gender) ==
    IF parameter \notin DOMAIN NORMAL_RANGES
    THEN Returned(<<0, Inf>>)
    ELSE LET range_value == NORMAL_RANGES[parameter] IN
         IF range_value.kind = "dict"
         THEN IF gender_recognized(gender, range_value)
              THEN Returned(range_value[lower(gender)])
              ELSE Returned(combined_range(range_value))
         ELSE Returned(range_value.pair)

get_normal_range(parameter, gender) ==
    IF parameter \notin DOMAIN NORMAL_RANGES
    THEN Raised("ValueError")
    ELSE LET range_value == NORMAL_RANGES[parameter] IN
         IF range_value.kind = "dict"
         THEN IF gender_recognized(gender, range_value)
              THEN Returned(range_value[lower(gender)])
              ELSE Returned(combined_range(range_value))
         ELSE Returned(range_value.pair)

(***************************************************************************)
(* Settings.is_critical_value.  The message is the tuple of the parts the  *)
(* f-string interpolates.                                                  *)
(***************************************************************************)
below_low_inclusive(thresholds, value) ==
    "critically_low" \in thresholds.keys /\ value <= thresholds.critically_low

below_low(thresholds, value) ==
    "critically_low" \in thresholds.keys /\ value < thresholds.critically_low

above_high_inclusive(thresholds, value) ==
    "critically_high" \in thresholds.keys /\ value >= thresholds.critically_high

above_high(thresholds, value) ==
    "critically_high" \in thresholds.keys /\ value > thresholds.critically_high

is_critical_value(parameter, value) ==
    IF parameter \notin DOMAIN CRITICAL_VALUES
    THEN [is_critical |-> FALSE]
    ELSE LET thresholds == CRITICAL_VALUES[parameter] IN
         IF below_low(thresholds, value)
         THEN [is_critical |-> TRUE, level |-> "critically_low",
               message |-> <<"Critically low", parameter, value>>]
         ELSE IF above_high(thresholds, value)
         THEN [is_critical |-> TRUE, level |-> "critically_high",
               message |-> <<"Critically high", parameter, value>>]
         ELSE [is_critical |-> FALSE, level |-> "normal", message |-> <<>>]

(***************************************************************************)
(* BloodReportProcessor.validate_extracted_data.  `data` is what the       *)
(* caller passes: shape "dict" with its items in iteration order, or a     *)
(* value without .items() (shape "null", "list").  The result is the pair  *)
(* (validated_data, warnings), or the exception the loop raises.           *)
(***************************************************************************)
Dict(items) == [shape |-> "dict", items |-> items]

Entry(p, k, v) == [param |-> p, kind |-> k, value |-> v]

Warning(e, range) ==
    [text |-> "Unusual value for", param |-> e.param, value |-> e.value,
     min_val |-> range[1], max_val |-> range[2]]

in_reasonable_range_strict(value, min_val, max_val) ==
    min_val < value /\ value < max_val

in_reasonable_range(value, min_val, max_val) ==
    min_val <= value /\ value <= max_val

\* a loop that takes None for a value
is_anything(e) == TRUE

\* lines 339 and 345: value is not None
is_not_None(e) == e.kind # "null"

RECURSIVE validate_loop(_, _, _, _)
validate_loop(items, i, validated_data, warnings) ==
    IF i > Len(items)
    THEN Returned([validated_data |-> validated_data, warnings |-> warnings])
    ELSE LET e == items[i] IN
         IF is_not_None(e) /\ e.param \in DOMAIN reasonable_ranges
         THEN LET range == reasonable_ranges[e.param] IN
              IF e.kind # "num"
              THEN Raised("TypeError")
              ELSE IF in_reasonable_range(e.value, range[1], range[2])
              THEN validate_loop(items, i + 1, Append(validated_data, e), warnings)
              ELSE validate_loop(items, i + 1, validated_data,
                                 Append(warnings, Warning(e, range)))
         ELSE IF is_not_None(e)
         THEN validate_loop(items, i + 1, Append(validated_data, e), warnings)
         ELSE validate_loop(items, i + 1, validated_data, warnings)

\* an input mapping from which the loop had deleted what it does not keep
data_after_pruning(data) ==
    LET kept(e) ==
            /\ e.kind # "null"
            /\ e.param \in DOMAIN reasonable_ranges =>
                   /\ e.kind = "num"
                   /\ in_reasonable_range(e.value, reasonable_ranges[e.param][1],
                                          reasonable_ranges[e.param][2])
    IN  IF data.shape = "dict" THEN Dict(SelectSeq(data.items, kept)) ELSE data

\* lines 338-348: the input mapping when the call returns or raises; the
\* loop reads data and assigns to validated_data and warnings only
data_after_validation(data) == data

validate_extracted_data(data) ==
    IF data.shape # "dict"
    THEN Raised("AttributeError")
    ELSE validate_loop(data.items, 1, <<>>, <<>>)

(***************************************************************************)
(* Report text.  The text is a sequence of chunks: a piece of wording       *)
(* ("lab", its characters in `s`), a number ("num", its value in `n`, in    *)
(* hundredths) or a line break ("nl"); chunks on one line are separated by  *)
(* blanks.  What a regular expression finds in a piece of wording is given  *)
(* per literal by Lits (the literal occurs in the wording) and EndLits (it  *)
(* ends the wording, so that only blanks separate it from the next chunk).  *)
(***************************************************************************)
Lab(s) == [k |-> "lab", s |-> s, n |-> 0]

Num(n) == [k |-> "num", s |-> "", n |-> n]

NL == [k |-> "nl", s |-> "\n", n |-> 0]

Lits(s) ==
    CASE s = "Platelet Count"      -> {"Platelet Count", "Platelet"}
      [] s = "Hemoglobin (Hb)"     -> {"Hemoglobin (Hb)", "Hemoglobin", "Hb"}
      [] s = "- Hemoglobin (Hb)"   -> {"Hemoglobin (Hb)", "Hemoglobin", "Hb"}
      [] s = "- Platelets"         -> {"Platelet"}
      [] s = "Hb"                  -> {"Hb"}
      [] s = "hemoglobin"          -> {"Hemoglobin"}
      [] OTHER                     -> {}

\* the literals that occur in the wording letter for letter (no re.IGNORECASE)
ExactLits(s) == IF s = "hemoglobin" THEN {} ELSE Lits(s)

EndLits(s) ==
    CASE s = "Platelet Count"      -> {"Platelet Count"}
      [] s = "Hemoglobin (Hb)"     -> {"Hemoglobin (Hb)"}
      [] s = "- Hemoglobin (Hb)"   -> {"Hemoglobin (Hb)"}
      [] s = "Hb"                  -> {"Hb"}
      [] OTHER                     -> {}

\* A pattern is  literal gap (capture).
\*   gap "ws"     [\s\n]* or [\s:]*  : blanks and line breaks only
\*   gap "any"    .*?                : any characters but a line break, as few as possible
\*   capture "dec"  (\d+\.?\d*)      : the whole number
\*   capture "int"  (\d+)            : the digits before the decimal point
Pat(lit, gap, cap) == [lit |-> lit, gap |-> gap, cap |-> cap]

NoMatch == -1

FirstOf(S) == CHOOSE i \in S : \A j \in S : i <= j

group1(tok, cap) == IF cap = "int" \/ tok.k = "date" THEN (tok.n \div 100) * 100 ELSE tok.n

\* the chunk the capture group matches when the literal is matched in chunk i
CaptureAt(T, i, pat) ==
    IF T[i].k # "lab" THEN 0
    ELSE IF pat.gap = "any"
    THEN IF pat.lit \notin Lits(T[i].s) THEN 0
         ELSE LET nums == {j \in (i + 1)..Len(T) :
                              /\ T[j].k \in {"num", "date"}
                              /\ \A m \in (i + 1)..(j - 1) : T[m].k = "lab"}
              IN  IF nums = {} THEN 0 ELSE FirstOf(nums)
    ELSE IF pat.lit \notin EndLits(T[i].s) THEN 0
         ELSE LET rest == {j \in (i + 1)..Len(T) : T[j].k # "nl"}
              IN  IF rest = {} THEN 0
                  ELSE IF T[FirstOf(rest)].k \in {"num", "date"} THEN FirstOf(rest) ELSE 0

\* re.search(pattern, text).group(1) as a number, or NoMatch
re_search(pat, T) ==
    LET starts == {i \in 1..Len(T) : CaptureAt(T, i, pat) # 0}
    IN  IF starts = {} THEN NoMatch
        ELSE group1(T[CaptureAt(T, FirstOf(starts), pat)], pat.cap)

(***************************************************************************)
(* BloodReportProcessor.parse_blood_values                                  *)
(***************************************************************************)
patterns ==
    << <<"hemoglobin",        << Pat("Hemoglobin (Hb)", "ws", "dec"),
                                 Pat("Hemoglobin", "any", "dec"),
                                 Pat("Hb", "ws", "dec") >> >>,
       <<"white_blood_cells", << Pat("Total WBC count", "ws", "int"),
                                 Pat("WBC", "any", "int"),
                                 Pat("White Blood Cell", "any", "int") >> >>,
       <<"red_blood_cells",   << Pat("Total RBC count", "ws", "dec"),
                                 Pat("RBC", "any", "dec"),
                                 Pat("Red Blood Cell", "any", "dec") >> >>,
       <<"platelets",         << Pat("Platelet Count", "ws", "int"),
                                 Pat("Platelet", "any", "int"),
                                 Pat("PLT", "any", "int") >> >>,
       <<"hematocrit",        << Pat("Packed Cell Volume (PCV)", "ws", "dec"),
                                 Pat("PCV", "any", "dec"),
                                 Pat("Hematocrit", "any", "dec") >> >>,
       <<"mcv",               << Pat("Mean Corpuscular Volume (MCV)", "ws", "dec"),
                                 Pat("MCV", "any", "dec") >> >>,
       <<"mch",               << Pat("MCH", "ws", "dec"),
                                 Pat("Mean Corpuscular Hemoglobin", "ws", "dec") >> >>,
       <<"mchc",              << Pat("MCHC", "ws", "dec"),
                                 Pat("Mean Corpuscular Hemoglobin Concentration", "ws", "dec") >> >>,
       <<"rdw",               << Pat("RDW", "ws", "dec"),
                                 Pat("Red Cell Distribution Width", "ws", "dec") >> >>,
       <<"neutrophils",       << Pat("Neutrophils", "ws", "int"),
                                 Pat("Neutrophil", "any", "int") >> >>,
       <<"lymphocytes",       << Pat("Lymphocytes", "ws", "int"),
                                 Pat("Lymphocyte", "any", "int") >> >>,
       <<"eosinophils",       << Pat("Eosinophils", "ws", "int"),
                                 Pat("Eosinophil", "any", "int") >> >>,
       <<"monocytes",         << Pat("Monocytes", "ws", "int"),
                                 Pat("Monocyte", "any", "int") >> >>,
       <<"basophils",         << Pat("Basophils", "ws", "int"),
                                 Pat("Basophil", "any", "int") >> >> >>

\* the loop without its break: the last pattern of the list that matches
RECURSIVE last_match(_, _, _)
last_match(pattern_list, j, T) ==
    IF j > Len(pattern_list) THEN NoMatch
    ELSE LET value == re_search(pattern_list[j], T)
             later == last_match(pattern_list, j + 1, T)
         IN  IF later # NoMatch THEN later ELSE value

\* the first pattern of the list that matches: its number, or NoMatch
RECURSIVE first_match(_, _, _)
first_match(pattern_list, j, T) ==
    IF j > Len(pattern_list) THEN NoMatch
    ELSE LET value == re_search(pattern_list[j], T) IN
         IF value # NoMatch THEN value ELSE first_match(pattern_list, j + 1, T)

RECURSIVE parse_loop(_, _, _, _)
parse_loop(table, i, T, results) ==
    IF i > Len(table) THEN results
    ELSE LET value == first_match(table[i][2], 1, T) IN
         parse_loop(table, i + 1, T,
                    IF value # NoMatch
                    THEN Append(results, Entry(table[i][1], "num", value))
                    ELSE results)

parse_blood_values(T) == parse_loop(patterns, 1, T, <<>>)

(***************************************************************************)
(* BloodReportProcessor.extract_patient_info.  The result dict is the      *)
(* function from the keys present to their values.  What the patterns find *)
(* in a piece of wording is given by the tables below.                     *)
(***************************************************************************)
Date(s, day, year) == [k |-> "date", s |-> s, n |-> day * 100, y |-> year]

\* wording that ends with  age  and blanks or colons (age[\s:]*), in any case
AgeLabel(s) == s \in {"Age", "Age :", "Age:", "age", "AGE"}

\* wording that ends with  age -  (age\s*[-:]\s*)
AgeDashLabel(s) == s \in {"Age -", "age -"}

\* wording that begins with  years old / year old,  or with  yr / yrs
YearsOld(s) == s \in {"years old", "year old", "Years Old"}

Yrs(s) == s \in {"yrs", "yr", "Yrs"}

\* the whole words male / m and female / f of the wording, in any case
GenderWords(s) ==
    CASE s \in {"Male", "male", "M", "Sex : Male", "Yash M. Patel"} -> {"male"}
      [] s \in {"Female", "female", "FEMALE", "F", "Sex : Female"}  -> {"female"}
      [] s \in {"Male / Female"}                                   -> {"male", "female"}
      [] OTHER                                                     -> {}

\* the name patterns (by their place in name_patterns) whose label ends the wording
NameLabels(s) ==
    CASE s \in {"Name:", "Name", "Patient Name:", "name:"} -> {1}
      [] s \in {"Patient:", "patient:"}                    -> {1, 4}
      [] s \in {"Patient"}                                 -> {1}
      [] s \in {"Mr.", "Mr", "mr."}                        -> {2, 3}
      [] s \in {"Mrs.", "Mrs"}                             -> {3}
      [] OTHER                                             -> {}

\* the letters and blanks that begin the wording
AlphaPrefix(s) ==
    CASE s \in {"Platelet Count", "Hb", "Male", "male", "Female", "female", "M", "F",
                "Name", "Patient", "Mr", "Mrs", "Age", "age", "AGE", "years old",
                "year old", "Years Old", "yrs", "yr", "Yrs", "Jo", "Ann", "FEMALE",
                "John Smith", "date", "hemoglobin"}         -> s
      [] s \in {"Age :", "Age:", "Age -"}                   -> "Age"
      [] s \in {"age -"}                                    -> "age"
      [] s \in {"Sex : Male", "Sex : Female"}               -> "Sex"
      [] s \in {"Male / Female"}                            -> "Male"
      [] s \in {"Name:"}                                    -> "Name"
      [] s \in {"name:"}                                    -> "name"
      [] s \in {"Patient Name:"}                            -> "Patient Name"
      [] s \in {"Patient:"}                                 -> "Patient"
      [] s \in {"patient:"}                                 -> "patient"
      [] s \in {"Mr."}                                      -> "Mr"
      [] s \in {"mr."}                                      -> "mr"
      [] s \in {"Mrs."}                                     -> "Mrs"
      [] s \in {"Yash M. Patel"}                            -> "Yash M"
      [] s \in {"Hemoglobin (Hb)"}                          -> "Hemoglobin"
      [] s \in {"date:"}                                    -> "date"
      [] s \in {"Test date:"}                               -> "Test date"
      [] OTHER                                              -> ""

\* wording made of letters and blanks only
IsAlpha(s) == s # "" /\ AlphaPrefix(s) = s

\* wording that ends with  date  and blanks or colons (case matters)
DateLabel(s) == s \in {"date:", "date", "Test date:"}

IsDigits(tok) == tok.k \in {"num", "date"}

\* the digits that end a number as printed (150000, 11.2, 12/05/2023)
trailing_digits(tok) ==
    IF tok.k = "date" THEN tok.y
    ELSE IF tok.n % 100 = 0 THEN tok.n \div 100
    ELSE IF tok.n % 10 = 0 THEN (tok.n % 100) \div 10
    ELSE tok.n % 100

NextNonBreak(T, i) ==
    LET rest == {j \in (i + 1)..Len(T) : T[j].k # "nl"}
    IN  IF rest = {} THEN 0 ELSE FirstOf(rest)

\* int(age_match.group(1)) for the age pattern number q, or NoMatch
age_search(q, T) ==
    LET after(label(_)) ==
            {i \in 1..Len(T) :
                /\ T[i].k = "lab" /\ label(T[i].s)
                /\ NextNonBreak(T, i) # 0 /\ IsDigits(T[NextNonBreak(T, i)])}
        before(unit(_)) ==
            {i \in 1..Len(T) :
                /\ IsDigits(T[i])
                /\ NextNonBreak(T, i) # 0
                /\ T[NextNonBreak(T, i)].k = "lab" /\ unit(T[NextNonBreak(T, i)].s)}
        starts == CASE q = 1 -> after(AgeLabel)
                    [] q = 2 -> before(YearsOld)
                    [] q = 3 -> before(Yrs)
                    [] q = 4 -> after(AgeDashLabel)
    IN  IF starts = {} THEN NoMatch
        ELSE IF q \in {1, 4}
        THEN T[NextNonBreak(T, FirstOf(starts))].n \div 100
        ELSE trailing_digits(T[FirstOf(starts)])

RECURSIVE first_age(_, _)
first_age(q, T) ==
    IF q > 4 THEN NoMatch
    ELSE IF age_search(q, T) # NoMatch THEN age_search(q, T)
    ELSE first_age(q + 1, T)

has_word(T, w) == \E i \in 1..Len(T) : T[i].k = "lab" /\ w \in GenderWords(T[i].s)

gender_female_first(T) ==
    IF has_word(T, "female") THEN "female"
    ELSE IF has_word(T, "male") THEN "male"
    ELSE None

\* the searches without their word boundaries: the letters male anywhere
gender_by_substring(T) ==
    IF has_word(T, "male") \/ has_word(T, "female") THEN "male" ELSE None

gender_of(T) ==
    IF has_word(T, "male") THEN "male"
    ELSE IF has_word(T, "female") THEN "female"
    ELSE None

\* the chunks ([a-zA-Z\s]{2,30}) takes after the label in chunk i; the texts of
\* the model hold fewer than 30 letters after a label, so the upper limit of
\* the group never cuts a name
RECURSIVE name_run(_, _)
name_run(T, j) ==
    IF j > Len(T) THEN <<>>
    ELSE IF T[j].k = "nl" \/ (T[j].k = "lab" /\ IsAlpha(T[j].s))
    THEN <<T[j]>> \o name_run(T, j + 1)
    ELSE IF T[j].k = "lab" /\ AlphaPrefix(T[j].s) # ""
    THEN <<Lab(AlphaPrefix(T[j].s))>>
    ELSE <<>>

RECURSIVE joined(_)
joined(run) ==
    IF run = <<>> THEN ""
    ELSE IF Len(run) = 1 THEN run[1].s
    ELSE IF run[1].k = "nl" \/ run[2].k = "nl" THEN run[1].s \o joined(Tail(run))
    ELSE run[1].s \o " " \o joined(Tail(run))

RECURSIVE strip(_)
strip(run) ==
    IF run = <<>> THEN run
    ELSE IF run[1].k = "nl" THEN strip(Tail(run))
    ELSE IF run[Len(run)].k = "nl" THEN strip(SubSeq(run, 1, Len(run) - 1))
    ELSE run

name_long_enough_2(name) == Len(name) >= 2

name_long_enough(name) == Len(name) > 2

\* name_match.group(1).strip() for the name pattern number q, or None
name_search(q, T) ==
    LET starts == {i \in 1..Len(T) :
                      /\ T[i].k = "lab" /\ q \in NameLabels(T[i].s)
                      /\ Len(joined(name_run(T, i + 1))) >= 2}
    IN  IF starts = {} THEN None
        ELSE joined(strip(name_run(T, FirstOf(starts) + 1)))

RECURSIVE first_name(_, _)
first_name(q, T) ==
    IF q > 4 THEN None
    ELSE IF name_search(q, T) # None /\ name_long_enough(name_search(q, T))
    THEN name_search(q, T)
    ELSE first_name(q + 1, T)

\* date_match.group(1): the date after the first date label, else the first date
test_date_of(T) ==
    LET labelled == {i \in 1..Len(T) :
                        /\ T[i].k = "lab" /\ DateLabel(T[i].s)
                        /\ NextNonBreak(T, i) # 0 /\ T[NextNonBreak(T, i)].k = "date"}
        dates == {i \in 1..Len(T) : T[i].k = "date"}
    IN  IF labelled # {} THEN T[NextNonBreak(T, FirstOf(labelled))].s
        ELSE IF dates # {} THEN T[FirstOf(dates)].s
        ELSE None

Field_with_default(key, value, absent) == key :> value

Field(key, value, absent) == IF value = absent THEN <<>> ELSE key :> value

extract_patient_info(T) ==
    Field("age", first_age(1, T), NoMatch)
        @@ Field("gender", gender_of(T), None)
        @@ Field("name", first_name(1, T), None)
        @@ Field("test_date", test_date_of(T), None)

(***************************************************************************)
(* The model's answer.  A response string is a sequence of pieces: blank   *)
(* space, a code fence with or without the json tag, prose, an opening or  *)
(* closing brace, or one member  "key": value  of the outer JSON object.   *)
(* A member whose value is an object holds that object's two braces.       *)
(* A parsed JSON object (and the dict the fallback builds) is the function *)
(* from its keys to their values.                                          *)
(***************************************************************************)
Ws == [c |-> "ws"]

\* the three backquotes followed by json
FenceJson == [c |-> "fence json"]

\* the three backquotes
Fence == [c |-> "fence"]

Prose == [c |-> "prose"]

Open == [c |-> "{"]

Close == [c |-> "}"]

Member(key, value) == [c |-> "member", key |-> key, value |-> value]

JNull == [shape |-> "null", items |-> <<>>]

NotAString == [type |-> "NoneType", chunks |-> <<>>]

Str(chunks) == [type |-> "str", chunks |-> chunks]

PyDict(d) == [type |-> "dict", d |-> d]

PyNone == [type |-> "NoneType", d |-> <<>>]

\* str.strip(): blank space at both ends removed
RECURSIVE str_strip(_)
str_strip(q) ==
    IF q = <<>> THEN q
    ELSE IF q[1] = Ws THEN str_strip(Tail(q))
    ELSE IF q[Len(q)] = Ws THEN str_strip(SubSeq(q, 1, Len(q) - 1))
    ELSE q

remove_prefix(q, piece) == IF q # <<>> /\ q[1] = piece THEN Tail(q) ELSE q

remove_suffix(q, piece) ==
    IF q # <<>> /\ q[Len(q)] = piece THEN SubSeq(q, 1, Len(q) - 1) ELSE q

\* lines 115-125: strip, drop a leading json fence, a leading fence, a trailing fence, strip
clean_response(result) ==
    str_strip(remove_suffix(
        remove_prefix(remove_prefix(str_strip(result), FenceJson), Fence), Fence))

HasBrace(piece) ==
    \/ piece.c \in {"{", "}"}
    \/ piece.c = "member" /\ piece.value.shape \in {"dict", "info"}

HasOpen(piece) == HasBrace(piece) /\ piece # Close

HasClose(piece) == HasBrace(piece) /\ piece # Open

\* clean_result.find('{'): the piece that holds the first '{', 0 for -1
json_start(q) ==
    LET S == {i \in 1..Len(q) : HasOpen(q[i])} IN IF S = {} THEN 0 ELSE FirstOf(S)

\* clean_result.find('}'): the piece that holds the first '}', 0 for -1
json_end_first(q) ==
    LET S == {i \in 1..Len(q) : HasClose(q[i])} IN IF S = {} THEN 0 ELSE FirstOf(S)

\* clean_result.rfind('}'): the piece that holds the last '}', 0 for -1
json_end(q) ==
    LET S == {i \in 1..Len(q) : HasClose(q[i])}
    IN  IF S = {} THEN 0 ELSE CHOOSE i \in S : \A j \in S : j <= i

\* the dict of an object's members; a later member replaces an earlier one of its key
RECURSIVE members_dict(_)
members_dict(ms) ==
    IF ms = <<>> THEN <<>>
    ELSE (ms[Len(ms)].key :> ms[Len(ms)].value)
             @@ members_dict(SubSeq(ms, 1, Len(ms) - 1))

RECURSIVE items_dict(_)
items_dict(items) ==
    IF items = <<>> THEN <<>>
    ELSE (items[Len(items)].param :> items[Len(items)])
             @@ items_dict(SubSeq(items, 1, Len(items) - 1))

\* json.loads of the pieces first..last: the dict, or JSONDecodeError
json_loads(q, first, last) ==
    IF first = last
    THEN \* both braces belong to one member: its value, an object, is what is parsed
         IF q[first].c = "member" /\ q[first].value.shape = "dict"
         THEN Returned(PyDict(items_dict(q[first].value.items)))
         ELSE IF q[first].c = "member" /\ q[first].value.shape = "info"
         THEN Returned(PyDict(q[first].value.fields))
         ELSE Raised("JSONDecodeError")
    ELSE LET inner == SelectSeq(SubSeq(q, first + 1, last - 1), LAMBDA x : x # Ws) IN
         IF /\ q[first] = Open /\ q[last] = Close
            /\ \A i \in 1..Len(inner) : inner[i].c = "member"
         THEN Returned(PyDict(members_dict(inner)))
         ELSE Raised("JSONDecodeError")

\* lines 112-145 up to the parse: the parsed object, the non-string result
\* itself, or JSONDecodeError
parse_llm_result(result) ==
    IF result.type # "str" THEN Returned(PyNone)
    ELSE LET clean_result == clean_response(result.chunks)
             start == json_start(clean_result)
             end   == json_end(clean_result)
         IN  IF start >= 1 /\ end >= start
             THEN json_loads(clean_result, start, end)
             ELSE Raised("JSONDecodeError")

\* json.dumps(extracted_data)
json_dumps(d, keys) ==
    Str(<<Open>> \o [i \in 1..Len(keys) |-> Member(keys[i], d[keys[i]])] \o <<Close>>)

Info(fields) == [shape |-> "info", fields |-> fields]

ResultKeys == <<"blood_values", "patient_info", "units", "reference_ranges">>

\* BloodReportProcessor._direct_extraction_fallback
direct_extraction_fallback_values_only(T) ==
    [blood_values |-> Dict(parse_blood_values(T)),
     patient_info |-> Info(<<>>),
     units |-> Dict(<<>>),
     reference_ranges |-> Dict(<<>>)]

direct_extraction_fallback(T) ==
    [blood_values |-> Dict(parse_blood_values(T)),
     patient_info |-> Info(extract_patient_info(T)),
     units |-> Dict(<<>>),
     reference_ranges |-> Dict(<<>>)]

(***************************************************************************)
(* LLMClient._manual_extraction_for_test_pdf, the last resort of the       *)
(* OpenAI client.  It is handed the extraction prompt, which is the report *)
(* text between lines of fixed wording; no pattern below matches in the    *)
(* fixed wording, and no match runs across a line break, so what it finds  *)
(* in the prompt is what it finds in the report text.                      *)
(***************************************************************************)
manual_patterns ==
    << <<"hemoglobin",        Pat("Hemoglobin", "any", "dec")>>,
       <<"red_blood_cells",   Pat("Total RBC count", "any", "dec")>>,
       <<"white_blood_cells", Pat("Total WBC count", "any", "int")>>,
       <<"platelets",         Pat("Platelet Count", "any", "int")>>,
       <<"hematocrit",        Pat("Packed Cell Volume", "any", "dec")>>,
       <<"mcv",               Pat("Mean Corpuscular Volume", "any", "dec")>>,
       <<"mch",               Pat("MCH", "any", "dec")>>,
       <<"mchc",              Pat("MCHC", "any", "dec")>>,
       <<"rdw",               Pat("RDW", "any", "dec")>>,
       <<"neutrophils",       Pat("Neutrophils", "any", "int")>>,
       <<"lymphocytes",       Pat("Lymphocytes", "any", "int")>>,
       <<"eosinophils",       Pat("Eosinophils", "any", "int")>>,
       <<"monocytes",         Pat("Monocytes", "any", "int")>>,
       <<"basophils",         Pat("Basophils", "any", "int")>> >>

\* re.search(pattern, text) without flags: the literal letter for letter
re_search_exact(pat, T) ==
    LET at(i) == IF T[i].k = "lab" /\ pat.lit \in ExactLits(T[i].s)
                 THEN LET nums == {j \in (i + 1)..Len(T) :
                                      /\ T[j].k \in {"num", "date"}
                                      /\ \A m \in (i + 1)..(j - 1) : T[m].k = "lab"}
                      IN  IF nums = {} THEN 0 ELSE FirstOf(nums)
                 ELSE 0
        starts == {i \in 1..Len(T) : at(i) # 0}
    IN  IF starts = {} THEN NoMatch
        ELSE group1(T[at(FirstOf(starts))], pat.cap)

RECURSIVE manual_loop(_, _, _, _)
manual_loop(table, i, T, results) ==
    IF i > Len(table) THEN results
    ELSE LET value == re_search_exact(table[i][2], T) IN
         manual_loop(table, i + 1, T,
                     IF value # NoMatch
                     THEN Append(results, Entry(table[i][1], "num", value))
                     ELSE results)

\* the decimal digits of n begin with 21
BeginsWith21(n) == \E k \in 0..9 : n \div (10 ^ k) = 21

\* the three fixed strings the function looks for
manual_patient_info(T) ==
    (IF \E i \in 1..Len(T) : T[i] = Lab("Yash M. Patel")
     THEN "name" :> "Yash M. Patel" ELSE <<>>)
    @@ (IF \E i \in 1..(Len(T) - 1) :
               /\ T[i] = Lab("Age :")
               /\ T[i + 1].k \in {"num", "date"}
               /\ BeginsWith21(T[i + 1].n \div 100)
        THEN "age" :> 21 ELSE <<>>)
    @@ (IF \E i \in 1..Len(T) : T[i] = Lab("Sex : Male")
        THEN "gender" :> "male" ELSE <<>>)

manual_extraction_for_test_pdf(T) ==
    json_dumps([blood_values |-> Dict(manual_loop(manual_patterns, 1, T, <<>>)),
                patient_info |-> Info(manual_patient_info(T)),
                units |-> Dict(<<>>),
                reference_ranges |-> Dict(<<>>)], ResultKeys)

(***************************************************************************)
(* RecommendationAgent: the status of a value against its normal range     *)
(* (get_medicine_recommendations, the lines that set status) and           *)
(* check_emergency_indicators.  blood_data is the ordered items of the     *)
(* mapping.                                                                 *)
(***************************************************************************)
value_status(parameter, e, gender) ==
    LET normal_range == get_normal_range(parameter, gender) IN
    IF normal_range.raised # "" THEN Raised(normal_range.raised)
    ELSE IF e.kind # "num" THEN Raised("TypeError")
    ELSE IF e.value < normal_range.value[1] THEN Returned("low")
    ELSE IF e.value > normal_range.value[2] THEN Returned("high")
    ELSE Returned("normal")

Has(blood_data, p) == \E i \in 1..Len(blood_data) : blood_data[i].param = p

ValueOf(blood_data, p) ==
    blood_data[CHOOSE i \in 1..Len(blood_data) : blood_data[i].param = p].value

RECURSIVE critical_loop(_, _, _)
critical_loop(blood_data, i, critical_values) ==
    IF i > Len(blood_data) THEN critical_values
    ELSE LET e == blood_data[i]
             critical_check == is_critical_value(e.param, e.value)
         IN  critical_loop(blood_data, i + 1,
                 IF critical_check.is_critical
                 THEN Append(critical_values,
                             [parameter |-> e.param, value |-> e.value,
                              status |-> critical_check.level,
                              message |-> critical_check.message])
                 ELSE critical_values)

Urgent(p, value, message) == [parameter |-> p, value |-> value, message |-> message]

platelet_rule_strict(blood_data) ==
    Has(blood_data, "platelets") /\ ValueOf(blood_data, "platelets") < 15000000

platelet_rule(blood_data) ==
    Has(blood_data, "platelets") /\ ValueOf(blood_data, "platelets") <= 15000000

check_emergency_indicators(blood_data) ==
    IF \E i \in 1..Len(blood_data) :
           blood_data[i].kind # "num" /\ blood_data[i].param \in DOMAIN CRITICAL_VALUES
    THEN Raised("TypeError")
    ELSE LET critical_values == critical_loop(blood_data, 1, <<>>)
             urgent_consultation ==
                 (IF Has(blood_data, "hemoglobin") /\ ValueOf(blood_data, "hemoglobin") < 1300
                  THEN <<Urgent("hemoglobin", ValueOf(blood_data, "hemoglobin"),
                                "Low hemoglobin suggests anemia")>>
                  ELSE <<>>)
                 \o (IF platelet_rule(blood_data)
                     THEN <<Urgent("platelets", ValueOf(blood_data, "platelets"),
                                   "Low/borderline platelets")>>
                     ELSE <<>>)
                 \o (IF Has(blood_data, "hematocrit") /\ ValueOf(blood_data, "hematocrit") > 5500
                     THEN <<Urgent("hematocrit", ValueOf(blood_data, "hematocrit"),
                                   "High hematocrit")>>
                     ELSE <<>>)
         IN  Returned([critical_values |-> critical_values,
                       urgent_consultation |-> urgent_consultation,
                       emergency_level |->
                           IF critical_values # <<>> THEN "critical"
                           ELSE IF urgent_consultation # <<>> THEN "urgent"
                           ELSE "normal"])

(***************************************************************************)
(* check_emergency_indicators statement by statement: the dict it starts   *)
(* with, the entry the loop appends for a critical reading (the page's own *)
(* function names the key "level", the agent's "status"), and the upgrade  *)
(* of a named rule that fires.                                             *)
(***************************************************************************)
no_indicators ==
    [critical_values |-> <<>>, urgent_consultation |-> <<>>, emergency_level |-> "normal"]

critical_entry(self, e, critical_check) ==
    IF self = "RecommendationAgent"
    THEN [parameter |-> e.param, value |-> e.value,
          status |-> critical_check.level, message |-> critical_check.message]
    ELSE [parameter |-> e.param, value |-> e.value,
          level |-> critical_check.level, message |-> critical_check.message]

record_level_only(indicators, entry) ==
    [indicators EXCEPT !.emergency_level = "critical"]

record_critical(indicators, entry) ==
    [indicators EXCEPT !.critical_values = Append(@, entry),
                       !.emergency_level = "critical"]

upgrade_always(level) == "urgent"

upgrade(level) == IF level = "normal" THEN "urgent" ELSE level

record_urgent(indicators, entry) ==
    [indicators EXCEPT !.urgent_consultation = Append(@, entry),
                       !.emergency_level = upgrade(@)]

hemoglobin_rule(blood_data) ==
    Has(blood_data, "hemoglobin") /\ ValueOf(blood_data, "hemoglobin") < 1300

hematocrit_rule(blood_data) ==
    Has(blood_data, "hematocrit") /\ ValueOf(blood_data, "hematocrit") > 5500

(***************************************************************************)
(* BloodReportProcessor: the object and extract_text_from_pdf.  A document *)
(* is a file that PdfReader can or cannot read and the text of each of its *)
(* pages (none when the document has no page).                             *)
(***************************************************************************)
\* the processors of a session
ProcessorIds == {1, 2}

\* lines 8-10: __init__
BloodReportProcessor == [extracted_data |-> <<>>, raw_text |-> <<>>]

\* lines 16-18: the text of every page, each followed by a line break
RECURSIVE pages_text(_)
pages_text(pages) ==
    IF pages = <<>> THEN <<>>
    ELSE Head(pages) \o <<NL>> \o pages_text(Tail(pages))

\* lines 14-22: the text, or the exception that replaces any exception
raw_text_of_pages(file) ==
    IF ~file.readable
    THEN Raised("Error reading PDF")
    ELSE Returned(pages_text(file.pages))

\* the outcome of the call and the processor after it
extract_text_from_pdf(self, file) ==
    LET outcome == raw_text_of_pages(file) IN
    [outcome |-> outcome,
     self |-> IF outcome.raised # "" THEN self
              ELSE [self EXCEPT !.raw_text = outcome.value]]

(***************************************************************************)
(* BloodReportProcessor.get_comprehensive_extraction: the result dict.     *)
(* A warning that is a fixed sentence is the record of its text.  The      *)
(* texts of the model are shorter than the 500 characters after which the  *)
(* preview is cut.                                                         *)
(***************************************************************************)
Message(s) == [text |-> s]

Get(d, key, default) == IF key \in DOMAIN d THEN d[key] ELSE default

\* a text is refused only when it has no character at all
IsEmpty(T) == T = <<>>

IsBlank(T) == \A i \in 1..Len(T) : T[i].k = "nl"

NoTextResult ==
    [success |-> FALSE,
     error |-> "No readable text found in PDF",
     blood_values |-> <<>>,
     patient_info |-> Info(<<>>),
     warnings |-> <<Message("PDF appears to be empty or contains only images")>>]

ErrorResult(e) ==
    [success |-> FALSE,
     error |-> e,
     blood_values |-> <<>>,
     patient_info |-> Info(<<>>),
     warnings |-> <<[text |-> "Extraction failed:", error |-> e]>>]

success_of_unvalidated(validated_blood_values, blood_values) == Len(blood_values.items) > 0

success_of(validated_blood_values, blood_values) == Len(validated_blood_values) > 0

extraction_method(choice, fell_back) == <<"LLM-powered extraction using", choice>>

\* lines 370-393: from the extraction result to the returned dict, or the exception
build_result(extraction, T, choice, fell_back) ==
    IF extraction.type # "dict" THEN Raised("AttributeError")
    ELSE LET blood_values == Get(extraction.d, "blood_values", Dict(<<>>))
             validated == validate_extracted_data(blood_values)
         IN  IF validated.raised # "" THEN Raised(validated.raised)
             ELSE LET validated_blood_values == validated.value.validated_data
                      warnings ==
                          validated.value.warnings
                          \o (IF validated_blood_values = <<>>
                              THEN <<Message("No blood values could be extracted from the PDF"),
                                     Message("The PDF might not contain standard blood test results")>>
                              ELSE <<>>)
                  IN  Returned(
                        [success |-> success_of(validated_blood_values, blood_values),
                         blood_values |-> validated_blood_values,
                         patient_info |-> Get(extraction.d, "patient_info", Info(<<>>)),
                         units |-> Get(extraction.d, "units", Dict(<<>>)),
                         reference_ranges |-> Get(extraction.d, "reference_ranges", Dict(<<>>)),
                         warnings |-> warnings,
                         raw_text_preview |-> T,
                         extraction_method |-> extraction_method(choice, fell_back)])

\* lines 368-377: the dict that extract_blood_values_with_llm returned, after
\* its blood_values were handed to validate_extracted_data
extraction_result_after(extraction) ==
    IF extraction.type = "dict" /\ "blood_values" \in DOMAIN extraction.d
    THEN [extraction EXCEPT !.d.blood_values = data_after_validation(@)]
    ELSE extraction

\* the except clause of get_comprehensive_extraction
catch_nothing(outcome) == outcome

catch_exception(outcome) ==
    IF outcome.raised # "" THEN Returned(ErrorResult(outcome.raised)) ELSE outcome

(***************************************************************************)
(* app.get_value_status, the status shown with each extracted value, and   *)
(* RecommendationAgent.get_medicine_recommendations, which works out the   *)
(* same status to choose its advice.  e is the value as an entry (kind and *)
(* number); the bare except of get_value_status also catches the TypeError *)
(* of comparing a value that is not a number.                              *)
(***************************************************************************)
is_below_inclusive(value, normal_range) == value <= normal_range[1]

is_below(value, normal_range) == value < normal_range[1]

is_above(value, normal_range) == value > normal_range[2]

get_value_status(parameter, e, gender) ==
    LET normal_range == get_normal_range(parameter, gender) IN
    IF normal_range.raised # "" \/ e.kind # "num" THEN "Unknown"
    ELSE IF is_below(e.value, normal_range.value) THEN "Low"
    ELSE IF is_above(e.value, normal_range.value) THEN "High"
    ELSE "Normal"

\* the (parameter, status) pairs that medicine_database has advice for
medicine_database ==
    {<<"hemoglobin", "low">>, <<"glucose", "high">>, <<"cholesterol", "high">>}

\* the returned dict: the advice for (parameter, status), the message that
\* there is none, or the error dict of the except clause
get_medicine_recommendations(parameter, e, patient_info) ==
    LET status == value_status(parameter, e, Get(patient_info, "gender", None)) IN
    IF status.raised # ""
    THEN [error |-> <<"Could not generate recommendations:", status.raised>>]
    ELSE IF <<parameter, status.value>> \in medicine_database
    THEN [advice |-> <<parameter, status.value>>]
    ELSE [message |-> "No specific recommendations available for this parameter"]

(***************************************************************************)
(* BloodAnalyzerAgent.quick_analysis.  parameter_status is the function    *)
(* from the parameters assessed so far to their status.  What can raise in *)
(* the inner try (the lookup of the range, the comparison of a value that  *)
(* is not a number) raises before results is touched, so the inner except  *)
(* finds results as the turn of the loop began.  patient_info is not used. *)
(***************************************************************************)
\* the body of the inner try for one reading
assess(e, results) ==
    LET normal_range == get_normal_range(e.param, None) IN
    IF normal_range.raised # "" THEN Raised(normal_range.raised)
    ELSE IF e.kind # "num" THEN Raised("TypeError")
    ELSE LET in_range == /\ normal_range.value[1] <= e.value
                         /\ e.value <= normal_range.value[2]
             counted == IF in_range
                        THEN [results EXCEPT !.normal_count = @ + 1]
                        ELSE [results EXCEPT !.abnormal_count = @ + 1]
             critical_check == is_critical_value(e.param, e.value)
         IN  IF critical_check.is_critical
             THEN Returned([counted EXCEPT
                      !.critical_count = @ + 1,
                      !.emergency_level = "critical",
                      !.quick_insights = Append(@, critical_check.message),
                      !.parameter_status = (e.param :> "critical") @@ @])
             ELSE Returned([counted EXCEPT
                      !.parameter_status =
                          (e.param :> IF in_range THEN "normal" ELSE "abnormal") @@ @])

\* no inner except: what the body raises leaves the loop
except_nothing(outcome, results, param) == outcome

\* except Exception: results["parameter_status"][param] = "unknown"
except_exception(outcome, results, param) ==
    IF outcome.raised # ""
    THEN Returned([results EXCEPT !.parameter_status = (param :> "unknown") @@ @])
    ELSE outcome

RECURSIVE quick_loop(_, _, _)
quick_loop(blood_data, i, results) ==
    IF i > Len(blood_data) THEN Returned(results)
    ELSE LET turn == except_exception(assess(blood_data[i], results), results,
                                      blood_data[i].param)
         IN  IF turn.raised # "" THEN turn
             ELSE quick_loop(blood_data, i + 1, turn.value)

quick_analysis(blood_data, patient_info) ==
    LET looped == quick_loop(blood_data, 1,
                      [normal_count |-> 0, abnormal_count |-> 0, critical_count |-> 0,
                       parameter_status |-> <<>>, quick_insights |-> <<>>,
                       emergency_level |-> "normal"])
        results == looped.value
    IN  IF looped.raised # ""
        THEN [error |-> looped.raised,
              quick_insights |-> <<"Quick analysis failed - please try full analysis">>,
              emergency_level |-> "unknown"]
        ELSE IF results.critical_count > 0
        THEN [results EXCEPT !.quick_insights =
                 <<<<results.critical_count, "critical values detected">>>> \o @]
        ELSE IF results.abnormal_count > results.normal_count
        THEN [results EXCEPT !.quick_insights =
                 Append(@, <<results.abnormal_count, "parameters outside normal range">>)]
        ELSE [results EXCEPT !.quick_insights =
                 Append(@, "Most parameters within normal ranges")]

(***************************************************************************)
(* Inputs of the function calls: every parameter of the tables and one     *)
(* the tables do not know, and for each the numbers the code compares a    *)
(* value with (range bounds, thresholds, rule constants), each with its    *)
(* two neighbours.                                                         *)
(***************************************************************************)
ParamNames ==
    DOMAIN NORMAL_RANGES \cup DOMAIN CRITICAL_VALUES
        \cup DOMAIN reasonable_ranges \cup {"no_such_parameter", "Hemoglobin"}

Genders == {None, "", "male", "female", "Male", "FEMALE", "other"}

NormalBounds(p) ==
    IF p \notin DOMAIN NORMAL_RANGES THEN {}
    ELSE LET rv == NORMAL_RANGES[p] IN
         IF rv.kind = "dict"
         THEN {rv.male[1], rv.male[2], rv.female[1], rv.female[2]}
         ELSE {rv.pair[1], rv.pair[2]}

CriticalBounds(p) ==
    IF p \notin DOMAIN CRITICAL_VALUES THEN {}
    ELSE {CRITICAL_VALUES[p][k] : k \in CRITICAL_VALUES[p].keys}

SanityBounds(p) ==
    IF p \notin DOMAIN reasonable_ranges THEN {}
    ELSE {reasonable_ranges[p][1], reasonable_ranges[p][2]}

Around(S) == {x \in UNION {{b - 1, b, b + 1} : b \in S} : x >= 0 /\ x < Inf}

SampleValues(p) ==
    Around(NormalBounds(p) \cup CriticalBounds(p) \cup SanityBounds(p) \cup {100})

\* the validator's inputs: ordered mappings of at most MaxData entries
MaxData == 2

ValidateParams == {"hemoglobin", "platelets", "mcv", "no_such_parameter"}

ValidateValues(p) ==
    {x \in SampleValues(p) :
        \/ \E b \in SanityBounds(p) : x \in {b - 1, b, b + 1}
        \/ x \in NormalBounds(p)}

ValidateEntries ==
    UNION {{Entry(p, "num", x) : x \in ValidateValues(p)}
             \cup {Entry(p, "null", 0), Entry(p, "str", 0)} : p \in ValidateParams}

DistinctKeys(items) ==
    \A i, j \in 1..Len(items) : items[i].param = items[j].param => i = j

RECURSIVE SeqsUpTo(_, _)
SeqsUpTo(S, n) ==
    IF n = 0 THEN {<<>>}
    ELSE LET shorter == SeqsUpTo(S, n - 1) IN
         shorter \cup {Append(q, x) : q \in {r \in shorter : Len(r) = n - 1}, x \in S}

RECURSIVE ItemSeqs(_, _)
ItemSeqs(E, n) ==
    IF n = 0 THEN {<<>>}
    ELSE LET shorter == ItemSeqs(E, n - 1) IN
         shorter \cup {Append(q, e) : q \in {r \in shorter : Len(r) = n - 1}, e \in E}

ValidateInputs ==
    {Dict(q) : q \in {r \in ItemSeqs(ValidateEntries, MaxData) : DistinctKeys(r)}}

\* the record of the last call holds one call: the other functions' slots are idle
IdleValidate ==
    /\ v_data' = Dict(<<>>)
    /\ v_out' = Returned([validated_data |-> <<>>, warnings |-> <<>>])

IdleRange ==
    /\ r_param' = "no_such_parameter"
    /\ r_gender' = None
    /\ r_out' = Raised("ValueError")

IdleCritical ==
    /\ c_param' = "no_such_parameter"
    /\ c_value' = 0
    /\ c_out' = [is_critical |-> FALSE]

IdleCall ==
    /\ call_args' = <<>>
    /\ call_out' = <<>>

\* no run of the pipeline is under way
IdlePipe ==
    /\ pc = "idle"
    /\ pdf_file = [readable |-> FALSE, pages |-> <<>>]
    /\ model_choice = "OpenAI GPT-3.5"
    /\ text = <<>>
    /\ trace = <<>>
    /\ llm_result = NotAString
    /\ extraction_result = PyNone
    /\ extraction_results = Raised("not called")
    /\ session_state = <<>>
    /\ analysis = <<>>

IdleRef ==
    /\ op = "none"
    /\ v_data = Dict(<<>>)
    /\ v_out = Returned([validated_data |-> <<>>, warnings |-> <<>>])
    /\ r_param = "no_such_parameter"
    /\ r_gender = None
    /\ r_out = Raised("ValueError")
    /\ c_param = "no_such_parameter"
    /\ c_value = 0
    /\ c_out = [is_critical |-> FALSE]
    /\ call_args = <<>>
    /\ call_out = <<>>
    /\ e_call = <<>>
    /\ e_pc = "idle"
    /\ e_i = 0
    /\ emergency_indicators = no_indicators
    /\ processors = [id \in ProcessorIds |-> BloodReportProcessor]
    /\ runs = <<>>

InitRef == IdlePipe /\ IdleRef

CallValidate ==
    /\ op = "none"
    /\ \E d \in ValidateInputs :
           /\ op' = "validate_extracted_data"
           /\ v_data' = data_after_validation(d)
           /\ v_out' = validate_extracted_data(d)
           /\ IdleRange /\ IdleCritical /\ IdleCall
           /\ UNCHANGED <<pipevars, emvars, procvars>>

CallGetNormalRange ==
    /\ op = "none"
    /\ \E p \in ParamNames, g \in Genders :
           /\ op' = "get_normal_range"
           /\ r_param' = p
           /\ r_gender' = g
           /\ r_out' = get_normal_range(p, g)
           /\ IdleValidate /\ IdleCritical /\ IdleCall
           /\ UNCHANGED <<pipevars, emvars, procvars>>

CallIsCritical ==
    /\ op = "none"
    /\ \E p \in ParamNames : \E v \in SampleValues(p) :
           /\ op' = "is_critical_value"
           /\ c_param' = p
           /\ c_value' = v
           /\ c_out' = is_critical_value(p, v)
           /\ IdleValidate /\ IdleRange /\ IdleCall
           /\ UNCHANGED <<pipevars, emvars, procvars>>

\* the values a status is asked for: numbers next to the bounds, and a string
StatusEntries(p) == {Entry(p, "num", x) : x \in SampleValues(p)} \cup {Entry(p, "str", 0)}

PatientInfos == {<<>>} \cup {"gender" :> g : g \in Genders}

CallGetValueStatus ==
    /\ op = "none"
    /\ \E p \in ParamNames, g \in Genders : \E e \in StatusEntries(p) :
           /\ op' = "get_value_status"
           /\ call_args' = [parameter |-> p, value |-> e, gender |-> g]
           /\ call_out' = get_value_status(p, e, g)
           /\ IdleValidate /\ IdleRange /\ IdleCritical
           /\ UNCHANGED <<pipevars, emvars, procvars>>

CallGetMedicineRecommendations ==
    /\ op = "none"
    /\ \E p \in ParamNames, info \in PatientInfos : \E e \in StatusEntries(p) :
           /\ op' = "get_medicine_recommendations"
           /\ call_args' = [parameter |-> p, value |-> e, patient_info |-> info]
           /\ call_out' = get_medicine_recommendations(p, e, info)
           /\ IdleValidate /\ IdleRange /\ IdleCritical
           /\ UNCHANGED <<pipevars, emvars, procvars>>

MaxParseLen == 4

\* wording the value patterns know, in the spellings of a report, and numbers
ParseChunks ==
    {Lab("Hemoglobin (Hb)"), Lab("hemoglobin"), Lab("Hb"), Lab("Platelet Count"),
     Lab("- Platelets"), Num(900), Num(1120), Num(15000050), NL}

CallParseBloodValues ==
    /\ op = "none"
    /\ \E T \in SeqsUpTo(ParseChunks, MaxParseLen) :
           /\ call_args' = [text |-> T]
           /\ call_out' = parse_blood_values(T)
    /\ op' = "parse_blood_values"
    /\ IdleValidate /\ IdleRange /\ IdleCritical
    /\ UNCHANGED <<pipevars, emvars, procvars>>

MaxInfoLen == 4

\* texts of the wording of age and date, shorter texts of the wording of
\* gender and name, and still shorter texts of both
InfoTexts ==
    LET gender_name == {Lab("Sex : Female"), Lab("FEMALE"), Lab("Male"),
                        Lab("Yash M. Patel"), Lab("Name:"), Lab("Mr."), Lab("Jo"),
                        Lab("Ann"), Lab("F"), NL}
        age_date == {Lab("Age:"), Lab("Age -"), Lab("years old"), Lab("yrs"),
                     Num(4500), Num(3000), Date("12/05/2023", 12, 2023), NL}
    IN  SeqsUpTo(age_date, MaxInfoLen) \cup SeqsUpTo(gender_name, MaxInfoLen - 1)
            \cup SeqsUpTo(gender_name \cup age_date, MaxInfoLen - 2)

CallExtractPatientInfo ==
    /\ op = "none"
    /\ \E T \in InfoTexts :
           /\ call_args' = [text |-> T]
           /\ call_out' = extract_patient_info(T)
    /\ op' = "extract_patient_info"
    /\ IdleValidate /\ IdleRange /\ IdleCritical
    /\ UNCHANGED <<pipevars, emvars, procvars>>

\* quick_analysis: readings on and next to the bounds of the range it looks
\* up (no gender is passed) and the critical thresholds, a reading that is
\* not a number, and two parameters without a range
QuickInputs ==
    LET values(p) ==
            IF p \in DOMAIN NORMAL_RANGES
            THEN Around(CriticalBounds(p) \cup {get_normal_range(p, None).value[1],
                                               get_normal_range(p, None).value[2]})
            ELSE {100}
        E == UNION {{Entry(p, "num", x) : x \in values(p)} \cup {Entry(p, "str", 0)} :
                       p \in {"hemoglobin", "platelets", "no_such_parameter", "Hemoglobin"}}
    IN  {q \in ItemSeqs(E, MaxData) : DistinctKeys(q)}

CallQuickAnalysis ==
    /\ op = "none"
    /\ \E d \in QuickInputs, info \in {<<>>, "gender" :> "female"} :
           /\ call_args' = [blood_data |-> d, patient_info |-> info]
           /\ call_out' = quick_analysis(d, info)
    /\ op' = "quick_analysis"
    /\ IdleValidate /\ IdleRange /\ IdleCritical
    /\ UNCHANGED <<pipevars, emvars, procvars>>

\* documents: one PdfReader cannot read, one without pages, pages without
\* text, pages with text
Documents ==
    {[readable |-> FALSE, pages |-> <<>>],
     [readable |-> TRUE, pages |-> <<>>],
     [readable |-> TRUE, pages |-> << <<>> >>],
     [readable |-> TRUE, pages |-> << <<>>, <<>> >>],
     [readable |-> TRUE, pages |-> << <<NL>> >>],
     [readable |-> TRUE, pages |-> << <<Lab("Hb"), Num(1120)>> >>],
     [readable |-> TRUE, pages |-> << <<>>, <<Lab("Hb"), Num(1120)>> >>],
     [readable |-> TRUE,
      pages |-> << <<Lab("Sex : Female")>>, <<Lab("Platelet Count"), Num(15000000)>> >>]}

CallExtractTextFromPdf ==
    /\ op = "none"
    /\ \E f \in Documents :
           /\ call_args' = [pdf_file |-> f]
           /\ call_out' = extract_text_from_pdf(BloodReportProcessor, f).outcome
    /\ op' = "extract_text_from_pdf"
    /\ IdleValidate /\ IdleRange /\ IdleCritical
    /\ UNCHANGED <<pipevars, emvars, procvars>>

NextRef ==
    \/ CallValidate
    \/ CallQuickAnalysis
    \/ CallExtractPatientInfo
    \/ CallParseBloodValues
    \/ CallGetNormalRange
    \/ CallIsCritical
    \/ CallGetValueStatus
    \/ CallGetMedicineRecommendations
    \/ CallExtractTextFromPdf

SpecRef == InitRef /\ [][NextRef]_vars

(***************************************************************************)
(* One call of check_emergency_indicators, statement by statement: the     *)
(* loop over the readings, then (in the agent) the three named rules.  A   *)
(* reading that is not a number raises TypeError where it is compared.     *)
(***************************************************************************)
MaxReadings == 2

EmergencyParams == {"hemoglobin", "platelets", "hematocrit", "glucose", "no_such_parameter"}

\* the numbers next to a critical threshold or to the constant of a rule
EmergencyValues(p) ==
    Around(CriticalBounds(p))
        \cup (CASE p = "hemoglobin" -> {1299, 1300}
                [] p = "platelets" -> {15000000, 15000001}
                [] p = "hematocrit" -> {5500, 5501}
                [] OTHER -> {100})

EmergencyInputs ==
    LET E == UNION {{Entry(p, "num", x) : x \in EmergencyValues(p)}
                      \cup {Entry(p, "str", 0)} : p \in EmergencyParams}
    IN  {q \in ItemSeqs(E, MaxReadings) : DistinctKeys(q)}

EnterCheckEmergencyIndicators ==
    /\ e_pc = "idle"
    /\ \E self \in {"RecommendationAgent", "app"}, d \in EmergencyInputs :
           e_call' = [self |-> self, blood_data |-> d]
    /\ emergency_indicators' = no_indicators
    /\ e_i' = 1
    /\ e_pc' = "critical_values"
    /\ UNCHANGED <<refvars, pipevars, procvars>>

\* one turn of: for parameter, value in blood_data.items()
CheckReading ==
    /\ e_pc = "critical_values"
    /\ e_i <= Len(e_call.blood_data)
    /\ LET e == e_call.blood_data[e_i]
           critical_check == is_critical_value(e.param, e.value)
       IN  IF e.kind # "num" /\ e.param \in DOMAIN CRITICAL_VALUES
           THEN /\ e_pc' = "TypeError"
                /\ UNCHANGED <<e_i, emergency_indicators>>
           ELSE /\ emergency_indicators' =
                       IF critical_check.is_critical
                       THEN record_critical(emergency_indicators,
                                critical_entry(e_call.self, e, critical_check))
                       ELSE emergency_indicators
                /\ e_i' = e_i + 1
                /\ UNCHANGED e_pc
    /\ UNCHANGED <<e_call, refvars, pipevars, procvars>>

\* the loop is over: the page's function returns, the agent's goes on
EndOfReadings ==
    /\ e_pc = "critical_values"
    /\ e_i > Len(e_call.blood_data)
    /\ e_pc' = IF e_call.self = "RecommendationAgent" THEN "hemoglobin" ELSE "return"
    /\ UNCHANGED <<e_call, e_i, emergency_indicators, refvars, pipevars, procvars>>

\* if p in blood_data and <comparison of blood_data[p]>: append, and upgrade
NamedRule(at, p, fires, message, next) ==
    /\ e_pc = at
    /\ IF Has(e_call.blood_data, p)
          /\ (CHOOSE e \in {e_call.blood_data[i] : i \in 1..Len(e_call.blood_data)} :
                  e.param = p).kind # "num"
       THEN /\ e_pc' = "TypeError"
            /\ UNCHANGED emergency_indicators
       ELSE /\ e_pc' = next
            /\ emergency_indicators' =
                   IF fires
                   THEN record_urgent(emergency_indicators,
                            Urgent(p, ValueOf(e_call.blood_data, p), message))
                   ELSE emergency_indicators
    /\ UNCHANGED <<e_call, e_i, refvars, pipevars, procvars>>

HemoglobinRule ==
    NamedRule("hemoglobin", "hemoglobin", hemoglobin_rule(e_call.blood_data),
              "Low hemoglobin suggests anemia", "platelets")

PlateletsRule ==
    NamedRule("platelets", "platelets", platelet_rule(e_call.blood_data),
              "Low/borderline platelets", "hematocrit")

HematocritRule ==
    NamedRule("hematocrit", "hematocrit", hematocrit_rule(e_call.blood_data),
              "High hematocrit", "return")

NextEmergency ==
    \/ EnterCheckEmergencyIndicators
    \/ CheckReading
    \/ EndOfReadings
    \/ HemoglobinRule
    \/ PlateletsRule
    \/ HematocritRule

SpecEmergency == InitRef /\ [][NextEmergency]_vars

(***************************************************************************)
(* One run of the extraction pipeline: get_comprehensive_extraction step   *)
(* by step (text extraction, the client's calls to the model, the parsing  *)
(* of the response, validation and the returned dict), then the screening  *)
(* of the values of a successful result.                                   *)
(***************************************************************************)
MaxTextLen == 3

MaxPayload == 2

TextChunks ==
    {Lab("Platelet Count"), Lab("Hb"), Lab("Sex : Female"),
     Num(15000000), Num(1120), NL}

Texts == SeqsUpTo(TextChunks, MaxTextLen)

PdfFiles ==
    {[readable |-> FALSE, pages |-> <<>>], [readable |-> TRUE, pages |-> <<>>]}
        \cup {[readable |-> TRUE, pages |-> <<T>>] : T \in Texts}

\* the options of the sidebar's select box
ModelChoices == {"OpenAI GPT-3.5", "Google Gemini"}

\* what a model may put under blood_values
PayloadEntries ==
    {Entry("hemoglobin", "num", 1120), Entry("hemoglobin", "num", 15000),
     Entry("hemoglobin", "null", 0), Entry("hemoglobin", "str", 0),
     Entry("platelets", "num", 15000000), Entry("mcv", "num", 9000)}

BloodValuePayloads ==
    {Dict(q) : q \in {r \in ItemSeqs(PayloadEntries, MaxPayload) : DistinctKeys(r)}}
        \cup {JNull, [shape |-> "list", items |-> <<>>]}

ModelPatientInfo == Info("gender" :> "male")

\* the members of the JSON object a model answers with
PayloadMembers ==
    {<<Member("blood_values", bv), Member("patient_info", ModelPatientInfo)>> :
         bv \in BloodValuePayloads}
        \cup {<<Member("patient_info", ModelPatientInfo)>>, <<>>}

Object(members) == <<Open>> \o members \o <<Close>>

SampleMembers ==
    <<Member("blood_values", Dict(<<Entry("hemoglobin", "num", 1120)>>)),
      Member("patient_info", ModelPatientInfo)>>

\* the object alone, and one object in fences, in prose, cut short,
\* without its outer braces, and answers without any object
Responses ==
    {Str(Object(m)) : m \in PayloadMembers}
        \cup {Str(<<FenceJson, Ws>> \o Object(SampleMembers) \o <<Ws, Fence>>),
              Str(<<Ws, Fence, Ws>> \o Object(SampleMembers) \o <<Ws, Fence, Ws>>),
              Str(<<Prose, Ws, FenceJson>> \o Object(SampleMembers) \o <<Fence, Ws, Prose>>),
              Str(<<Prose, Ws, FenceJson, Ws>> \o Object(SampleMembers) \o <<Ws, Fence>>),
              Str(<<Open>> \o SampleMembers),
              Str(SampleMembers),
              Str(SampleMembers \o <<Close>>),
              Str(<<Close, Prose, Open>>),
              Str(<<Prose>>),
              Str(<<>>)}

Init ==
    /\ IdleRef
    /\ pc = "start"
    /\ pdf_file \in PdfFiles
    /\ model_choice \in ModelChoices
    /\ text = <<>>
    /\ trace = <<>>
    /\ llm_result = NotAString
    /\ extraction_result = PyNone
    /\ extraction_results = Raised("not called")
    /\ session_state = <<>>
    /\ analysis = <<>>

\* lines 354-365: extract_text_from_pdf and the check for blank text
ExtractText ==
    /\ pc = "start"
    /\ LET read == extract_text_from_pdf(BloodReportProcessor, pdf_file).outcome IN
       IF read.raised # ""
       THEN /\ text' = text
            /\ trace' = Append(trace, "unreadable")
            /\ extraction_results' = catch_exception(read)
            /\ pc' = "done"
       ELSE LET T == read.value IN
            /\ text' = T
            /\ IF IsBlank(T)
               THEN /\ trace' = Append(trace, "blank")
                    /\ extraction_results' = Returned(NoTextResult)
                    /\ pc' = "done"
               ELSE /\ trace' = trace
                    /\ extraction_results' = extraction_results
                    /\ pc' = "call_model"
    /\ UNCHANGED <<pdf_file, model_choice, llm_result, extraction_result, session_state,
                   analysis, refvars, emvars, procvars>>

\* LLMClients.extract_structured_data_openai: the model answers (its content
\* may be None), or the call raises and the simpler request is tried
CallOpenAI ==
    /\ pc = "call_model"
    /\ model_choice # "Google Gemini"
    /\ \/ \E r \in Responses \cup {NotAString} :
              /\ llm_result' = r
              /\ trace' = Append(trace, "openai answered")
              /\ pc' = "parse"
       \/ /\ llm_result' = llm_result
          /\ trace' = Append(trace, "openai failed")
          /\ pc' = "simple_extraction"
    /\ UNCHANGED <<pdf_file, model_choice, text, extraction_result, extraction_results,
                   session_state, analysis, refvars, emvars, procvars>>

\* LLMClients._simple_extraction_openai: the second request answers, or it
\* raises and the answer is what _manual_extraction_for_test_pdf makes of the prompt
SimpleExtractionOpenAI ==
    /\ pc = "simple_extraction"
    /\ \/ \E r \in Responses \cup {NotAString} :
              /\ llm_result' = r
              /\ trace' = Append(trace, "simple answered")
       \/ /\ llm_result' = manual_extraction_for_test_pdf(text)
          /\ trace' = Append(trace, "simple failed")
    /\ pc' = "parse"
    /\ UNCHANGED <<pdf_file, model_choice, text, extraction_result, extraction_results,
                   session_state, analysis, refvars, emvars, procvars>>

\* LLMClients.extract_structured_data_gemini: the model answers, or the call
\* raises, the handler calls a method the class does not have, and the
\* AttributeError reaches the except clause of extract_blood_values_with_llm
CallGemini ==
    /\ pc = "call_model"
    /\ model_choice = "Google Gemini"
    /\ \/ \E r \in Responses :
              /\ llm_result' = r
              /\ trace' = Append(trace, "gemini answered")
              /\ extraction_result' = extraction_result
              /\ pc' = "parse"
       \/ /\ llm_result' = llm_result
          /\ trace' = trace \o <<"gemini failed", "fallback">>
          /\ extraction_result' = PyDict(direct_extraction_fallback(text))
          /\ pc' = "validate"
    /\ UNCHANGED <<pdf_file, model_choice, text, extraction_results, session_state,
                   analysis, refvars, emvars, procvars>>

\* extract_blood_values_with_llm, lines 110-145: the answer is parsed, or the
\* patterns are run on the text
ParseResponse ==
    /\ pc = "parse"
    /\ LET parsed == parse_llm_result(llm_result) IN
       IF parsed.raised # ""
       THEN /\ extraction_result' = PyDict(direct_extraction_fallback(text))
            /\ trace' = trace \o <<"json error", "fallback">>
       ELSE /\ extraction_result' = parsed.value
            /\ trace' = Append(trace, "parsed")
    /\ pc' = "validate"
    /\ UNCHANGED <<pdf_file, model_choice, text, llm_result, extraction_results,
                   session_state, analysis, refvars, emvars, procvars>>

FellBack == \E i \in 1..Len(trace) : trace[i] = "fallback"

\* get_comprehensive_extraction, lines 370-402
ValidateAndReturn ==
    /\ pc = "validate"
    /\ extraction_results' =
           catch_exception(build_result(extraction_result, text, model_choice, FellBack))
    /\ extraction_result' = extraction_result_after(extraction_result)
    /\ pc' = "done"
    /\ UNCHANGED <<pdf_file, model_choice, text, trace, llm_result,
                   session_state, analysis, refvars, emvars, procvars>>

\* app.process_pdf_with_llm after the call: the result is stored; after a
\* failure the patterns are run once more on the file's text and, if they
\* find a value, their unvalidated findings are stored as a success
ManualFallbackResult(manual_extraction) ==
    [success |-> TRUE,
     blood_values |-> manual_extraction.blood_values.items,
     patient_info |-> manual_extraction.patient_info,
     warnings |-> <<Message("Used manual extraction as fallback")>>,
     extraction_method |-> <<"Manual fallback extraction">>]

StoreResults ==
    /\ pc = "done"
    /\ IF extraction_results.raised # ""
       THEN session_state' = session_state
       ELSE LET read == extract_text_from_pdf(BloodReportProcessor, pdf_file).outcome IN
            IF extraction_results.value.success \/ read.raised # ""
       THEN session_state' = [extraction_results |-> extraction_results.value]
       ELSE LET manual_extraction == direct_extraction_fallback(read.value) IN
            IF manual_extraction.blood_values.items # <<>>
            THEN session_state' = [extraction_results |-> ManualFallbackResult(manual_extraction)]
            ELSE session_state' = [extraction_results |-> extraction_results.value]
    /\ pc' = "stored"
    /\ UNCHANGED <<pdf_file, model_choice, text, trace, llm_result, extraction_result,
                   extraction_results, analysis, refvars, emvars, procvars>>

\* the screening of the stored values of a successful result: each value's
\* status against its normal range, and the emergency indicators
Analyse ==
    /\ pc = "stored"
    /\ "extraction_results" \in DOMAIN session_state
    /\ session_state.extraction_results.success
    /\ LET blood_data == session_state.extraction_results.blood_values
           patient_info == session_state.extraction_results.patient_info
           gender == IF patient_info.shape = "info" /\ "gender" \in DOMAIN patient_info.fields
                     THEN patient_info.fields["gender"] ELSE None
       IN  analysis' =
               [status |-> [i \in 1..Len(blood_data) |->
                               value_status(blood_data[i].param, blood_data[i], gender)],
                emergency_indicators |-> check_emergency_indicators(blood_data)]
    /\ pc' = "analysed"
    /\ UNCHANGED <<pdf_file, model_choice, text, trace, llm_result, extraction_result,
                   extraction_results, session_state, refvars, emvars, procvars>>

Next ==
    \/ ExtractText
    \/ CallOpenAI
    \/ SimpleExtractionOpenAI
    \/ CallGemini
    \/ ParseResponse
    \/ ValidateAndReturn
    \/ StoreResults
    \/ Analyse

Spec == Init /\ [][Next]_vars

(***************************************************************************)
(* Processors of one session and their pattern methods.  A processor's     *)
(* attributes are written by __init__ and extract_text_from_pdf only; the  *)
(* runs record, for each call of a pattern method, the processor as it was *)
(* and what the call returned.                                             *)
(***************************************************************************)
MaxRuns == 2

\* a method that reads the processor's last text when there is one
pattern_method_on_raw_text(self, method, T) ==
    LET seen == IF self.raw_text # <<>> THEN self.raw_text ELSE T IN
    IF method = "parse_blood_values"
    THEN parse_blood_values(seen)
    ELSE extract_patient_info(seen)

\* parse_blood_values(self, text) and extract_patient_info(self, text):
\* neither body reads or writes an attribute of self
pattern_method(self, method, T) ==
    IF method = "parse_blood_values"
    THEN parse_blood_values(T)
    ELSE extract_patient_info(T)

ProcessorFiles ==
    {[readable |-> FALSE, pages |-> <<>>],
     [readable |-> TRUE, pages |-> <<>>],
     [readable |-> TRUE, pages |-> << <<Lab("Hb"), Num(1120)>> >>],
     [readable |-> TRUE,
      pages |-> << <<Lab("Sex : Female")>>, <<Lab("Platelet Count"), Num(15000000)>> >>]}

\* the texts handed to the pattern methods: those of the documents
ProcessorTexts ==
    {raw_text_of_pages(f).value : f \in {g \in ProcessorFiles : g.readable}}

ProcessorExtractText ==
    /\ \E id \in ProcessorIds, f \in ProcessorFiles :
           processors' = [processors EXCEPT ![id] = extract_text_from_pdf(@, f).self]
    /\ UNCHANGED <<runs, refvars, pipevars, emvars>>

RunPatternMethod(method) ==
    /\ Len(runs) < MaxRuns
    /\ \E id \in ProcessorIds, T \in ProcessorTexts :
           runs' = Append(runs, [processor |-> id,
                                 self |-> processors[id],
                                 method |-> method,
                                 text |-> T,
                                 out |-> pattern_method(processors[id], method, T)])
    /\ UNCHANGED <<processors, refvars, pipevars, emvars>>

ProcessorParseBloodValues == RunPatternMethod("parse_blood_values")

ProcessorExtractPatientInfo == RunPatternMethod("extract_patient_info")

NextProcessor ==
    \/ ProcessorExtractText
    \/ ProcessorParseBloodValues
    \/ ProcessorExtractPatientInfo

SpecProcessor == InitRef /\ [][NextProcessor]_vars

(***************************************************************************)
(* The page's session (app.py).  st.session_state outlives the script runs *)
(* of one browser session; a run processes the uploaded file, or handles   *)
(* one of the two buttons.  get_comprehensive_extraction is the pipeline   *)
(* above as one function of the file, the model chosen and what the model  *)
(* answers to the first request and to the simpler second one.             *)
(***************************************************************************)
\* LLMClients: the answer handed to the processor, or the exception
llm_answer(T, choice, first, second) ==
    IF choice = "Google Gemini" THEN first
    ELSE IF first.raised = "" THEN first
    ELSE IF second.raised = "" THEN second
    ELSE Returned(manual_extraction_for_test_pdf(T))

\* pdf_processor.py lines 110-145
extract_blood_values_with_llm(T, choice, first, second) ==
    LET answer == llm_answer(T, choice, first, second)
        parsed == parse_llm_result(answer.value)
    IN
    IF answer.raised # "" \/ parsed.raised # ""
    THEN [extraction |-> PyDict(direct_extraction_fallback(T)), fell_back |-> TRUE]
    ELSE [extraction |-> parsed.value, fell_back |-> FALSE]

\* pdf_processor.py lines 350-402
get_comprehensive_extraction(file, choice, first, second) ==
    LET read == extract_text_from_pdf(BloodReportProcessor, file).outcome IN
    IF read.raised # "" THEN catch_exception(read)
    ELSE IF IsBlank(read.value) THEN Returned(NoTextResult)
    ELSE LET llm == extract_blood_values_with_llm(read.value, choice, first, second) IN
         catch_exception(build_result(llm.extraction, read.value, choice, llm.fell_back))

\* st.session_state with one key set
With(state, key, value) == (key :> value) @@ state

\* app.py lines 147-226: st.session_state after the call
process_pdf_with_llm(state, uploaded_file, choice, first, second) ==
    LET results == get_comprehensive_extraction(uploaded_file, choice, first, second).value
        stored == With(state, "extraction_results", results)
        read == extract_text_from_pdf(BloodReportProcessor, uploaded_file).outcome
    IN  IF results.success \/ read.raised # "" THEN stored
        ELSE LET manual_extraction == direct_extraction_fallback(read.value) IN
             IF manual_extraction.blood_values.items # <<>>
             THEN With(state, "extraction_results", ManualFallbackResult(manual_extraction))
             ELSE stored

\* app.py lines 584-604: the page's own check_emergency_indicators
RECURSIVE page_emergency_loop(_, _, _)
page_emergency_loop(blood_data, i, indicators) ==
    IF i > Len(blood_data) THEN Returned(indicators)
    ELSE LET e == blood_data[i] IN
         IF e.kind # "num" /\ e.param \in DOMAIN CRITICAL_VALUES THEN Raised("TypeError")
         ELSE LET critical_check == is_critical_value(e.param, e.value) IN
              page_emergency_loop(blood_data, i + 1,
                  IF critical_check.is_critical
                  THEN record_critical(indicators, critical_entry("app", e, critical_check))
                  ELSE indicators)

\* app.py lines 279-369: st.session_state after the call; the indicators are
\* the recommendation agent's when comprehensive recommendations are on
run_comprehensive_analysis(state, choice, comprehensive_recommendations) ==
    LET blood_data == state.extraction_results.blood_values
        patient_info == state.extraction_results.patient_info
        indicators == IF comprehensive_recommendations
                      THEN check_emergency_indicators(blood_data)
                      ELSE page_emergency_loop(blood_data, 1, no_indicators)
    IN  IF blood_data = <<>> \/ indicators.raised # "" THEN state
        ELSE With(state, "analysis_results",
                  [emergency_indicators |-> indicators.value,
                   model_used |-> choice,
                   comprehensive_enabled |-> comprehensive_recommendations,
                   blood_data |-> blood_data,
                   patient_info |-> patient_info])

\* app.py lines 840-847
clear_all_data(state) ==
    [key \in DOMAIN state \ {"extraction_results", "analysis_results"} |-> state[key]]

\* app.py lines 538-553: what the sidebar shows
display_emergency_sidebar(state) ==
    IF "analysis_results" \in DOMAIN state
    THEN state.analysis_results.emergency_indicators.emergency_level
    ELSE "nothing"

\* the files uploaded in a session: one that cannot be read, one without
\* pages, and reports with a critical, a normal and an implausible reading
SessionFiles ==
    {[readable |-> FALSE, pages |-> <<>>],
     [readable |-> TRUE, pages |-> <<>>],
     [readable |-> TRUE, pages |-> << <<Lab("Hb"), Num(600)>> >>],
     [readable |-> TRUE, pages |-> << <<Lab("Hb"), Num(1400)>> >>],
     [readable |-> TRUE, pages |-> << <<Lab("Platelet Count"), Num(15000000)>> >>]}

\* what a model does with a request: it raises, answers with an object, or
\* answers without one
SessionAnswers ==
    {Raised("APIError"), Returned(Str(Object(SampleMembers))), Returned(Str(<<Prose>>))}

\* a script run with a file in the uploader (lines 87-98)
ProcessPdfWithLlm ==
    /\ pc = "idle"
    /\ \E f \in SessionFiles, choice \in ModelChoices, first, second \in SessionAnswers :
           /\ pdf_file' = f
           /\ model_choice' = choice
           /\ session_state' = process_pdf_with_llm(session_state, f, choice, first, second)
    /\ UNCHANGED <<pc, text, trace, llm_result, extraction_result, extraction_results,
                   analysis, refvars, emvars, procvars>>

\* lines 101-114: the results are shown
ResultsShown ==
    /\ "extraction_results" \in DOMAIN session_state
    /\ session_state.extraction_results.success

\* a script run with "Start Analysis" pressed (lines 108-110)
RunComprehensiveAnalysis ==
    /\ pc = "idle"
    /\ ResultsShown
    /\ \E choice \in ModelChoices, comprehensive_recommendations \in BOOLEAN :
           /\ model_choice' = choice
           /\ session_state' =
                  run_comprehensive_analysis(session_state, choice,
                                             comprehensive_recommendations)
    /\ UNCHANGED <<pc, pdf_file, text, trace, llm_result, extraction_result,
                   extraction_results, analysis, refvars, emvars, procvars>>

\* a script run with "Clear All" pressed (lines 112-114)
ClearAllData ==
    /\ pc = "idle"
    /\ ResultsShown
    /\ session_state' = clear_all_data(session_state)
    /\ UNCHANGED <<pc, pdf_file, model_choice, text, trace, llm_result, extraction_result,
                   extraction_results, analysis, refvars, emvars, procvars>>

NextSession ==
    \/ ProcessPdfWithLlm
    \/ RunComprehensiveAnalysis
    \/ ClearAllData

SpecSession == InitRef /\ [][NextSession]_vars

(***************************************************************************)
(* Claims about the validator and the reference data store (SpecRef)       *)
(***************************************************************************)
Entries(items) == {items[i] : i \in 1..Len(items)}

WarningsFor(warnings, p) == {i \in 1..Len(warnings) : warnings[i].param = p}

HasSanityRange(p) == p \in DOMAIN reasonable_ranges

OutsideSanity(e) ==
    /\ HasSanityRange(e.param)
    /\ \/ e.value < reasonable_ranges[e.param][1]
       \/ e.value > reasonable_ranges[e.param][2]

ValidateReturned == op = "validate_extracted_data" /\ v_out.raised = ""

\* C1: validate_extracted_data, for every mapping of numbers (and nulls): a
\* number outside its parameter's sanity range is absent from the validated
\* set and has exactly one warning, naming parameter, value and range; a
\* number inside the range (bounds inclusive) is kept; a number of a
\* parameter without sanity range is kept; every entry's fate depends on
\* that entry alone, so a drop leaves the other entries as they are.
C1_ValidateDropsOnlyOutliers ==
    ValidateReturned =>
        LET out == v_out.value IN
        \A e \in Entries(v_data.items) :
            e.kind = "num" =>
                IF OutsideSanity(e)
                THEN /\ \A k \in Entries(out.validated_data) : k.param # e.param
                     /\ Cardinality(WarningsFor(out.warnings, e.param)) = 1
                     /\ \A i \in WarningsFor(out.warnings, e.param) :
                            /\ out.warnings[i].value = e.value
                            /\ out.warnings[i].min_val = reasonable_ranges[e.param][1]
                            /\ out.warnings[i].max_val = reasonable_ranges[e.param][2]
                ELSE /\ e \in Entries(out.validated_data)
                     /\ WarningsFor(out.warnings, e.param) = {}

\* a call that dropped one entry at a bound's outside and kept another one
C1_Witness ==
    /\ ValidateReturned
    /\ Len(v_data.items) = 2
    /\ \E e \in Entries(v_data.items) : e.kind = "num" /\ OutsideSanity(e)
    /\ \E e \in Entries(v_data.items) :
           /\ e.kind = "num" /\ HasSanityRange(e.param)
           /\ e.value = reasonable_ranges[e.param][1]
           /\ e \in Entries(v_out.value.validated_data)
    /\ Len(v_out.value.warnings) = 1

NormalVariants(p) ==
    IF p \notin DOMAIN NORMAL_RANGES THEN {}
    ELSE LET rv == NORMAL_RANGES[p] IN
         IF rv.kind = "dict" THEN {rv.male, rv.female} ELSE {rv.pair}

InsideNormal(p, x) == \E r \in NormalVariants(p) : r[1] <= x /\ x <= r[2]

\* C2: the sanity range of a parameter is broader than its normal range (every
\* gender variant), so the validator never drops a value that lies inside the
\* parameter's normal range.
C2_ValidatorKeepsNormalValues ==
    ValidateReturned =>
        \A e \in Entries(v_data.items) :
            (e.kind = "num" /\ InsideNormal(e.param, e.value))
                => e \in Entries(v_out.value.validated_data)

\* C2, the tables alone: the parameters whose sanity range does not contain
\* the normal range of some gender variant
C2_NotBroader ==
    {p \in DOMAIN reasonable_ranges \cap DOMAIN NORMAL_RANGES :
        \E r \in NormalVariants(p) :
            reasonable_ranges[p][1] > r[1] \/ reasonable_ranges[p][2] < r[2]}

HasLow(p) == p \in DOMAIN CRITICAL_VALUES /\ "critically_low" \in CRITICAL_VALUES[p].keys

HasHigh(p) == p \in DOMAIN CRITICAL_VALUES /\ "critically_high" \in CRITICAL_VALUES[p].keys

\* C9: is_critical_value(p, v) says is_critical exactly when p has a
\* critically_low threshold and v is strictly below it, or p has a
\* critically_high threshold and v is strictly above it (a value equal to a
\* threshold, between the thresholds, or on a side without threshold is not
\* critical); level is critically_low for the low side, critically_high for
\* the high side.
C9_CriticalIffStrictlyBeyond ==
    op = "is_critical_value" =>
        LET low  == HasLow(c_param) /\ c_value < CRITICAL_VALUES[c_param].critically_low
            high == HasHigh(c_param) /\ c_value > CRITICAL_VALUES[c_param].critically_high
        IN  /\ c_out.is_critical = (low \/ high)
            /\ low => c_out.level = "critically_low"
            /\ (high /\ ~low) => c_out.level = "critically_high"

\* a value equal to the critically_low threshold of its parameter: not critical
C9_Witness ==
    /\ op = "is_critical_value"
    /\ HasLow(c_param)
    /\ c_value = CRITICAL_VALUES[c_param].critically_low
    /\ c_out.is_critical = FALSE

MaleSpellings == {"male", "Male", "MALE"}

FemaleSpellings == {"female", "Female", "FEMALE"}

\* C10: get_normal_range(p, gender) for p with a range: a single pair is
\* returned whatever the gender; a gender-specific range with a recognized
\* gender (any letter case) gives that gender's pair; with no gender or an
\* unrecognized one it gives (min of the lows, max of the highs).
C10_NormalRangeLookup ==
    (op = "get_normal_range" /\ r_param \in DOMAIN NORMAL_RANGES) =>
        LET rv == NORMAL_RANGES[r_param] IN
        /\ r_out.raised = ""
        /\ rv.kind = "tuple" => r_out.value = rv.pair
        /\ (rv.kind = "dict" /\ r_gender \in MaleSpellings) => r_out.value = rv.male
        /\ (rv.kind = "dict" /\ r_gender \in FemaleSpellings) => r_out.value = rv.female
        /\ (rv.kind = "dict" /\ r_gender \notin MaleSpellings \cup FemaleSpellings) =>
               /\ r_out.value[1] = Min(rv.male[1], rv.female[1])
               /\ r_out.value[2] = Max(rv.male[2], rv.female[2])

\* hemoglobin without gender: (12.0, 17.0)
C10_Witness ==
    /\ op = "get_normal_range"
    /\ r_param = "hemoglobin"
    /\ r_gender = None
    /\ r_out = Returned(<<1200, 1700>>)

(***************************************************************************)
(* Claims about the extraction pipeline (Spec)                              *)
(***************************************************************************)
Done == pc \in {"done", "stored", "analysed"}

ReturnedDict == Done /\ extraction_results.raised = ""

\* the run got as far as validation and the dict of lines 384-393 was returned
ReturnedValidated == ReturnedDict /\ "extraction_method" \in DOMAIN extraction_results.value

Happened(event) == \E i \in 1..Len(trace) : trace[i] = event

PlateletCount150000 ==
    \E i \in 1..(Len(text) - 1) :
        text[i] = Lab("Platelet Count") /\ text[i + 1] = Num(15000000)

NoGenderInformation == \A i \in 1..Len(text) : text[i].k = "lab" => GenderWords(text[i].s) = {}

\* C3: text holding "Platelet Count 150000" and no gender, values taken by
\* the patterns: the result of the extraction holds platelets 150000, and the
\* screening gives it the status normal, no critical entry, and the
\* emergency level urgent through the platelet rule.
C3_PlateletScenario ==
    (PlateletCount150000 /\ NoGenderInformation /\ FellBack) =>
        /\ Done =>
               /\ extraction_results.raised = ""
               /\ Has(extraction_results.value.blood_values, "platelets")
               /\ ValueOf(extraction_results.value.blood_values, "platelets") = 15000000
        /\ pc = "analysed" =>
               LET blood_data == session_state.extraction_results.blood_values
                   emergency == analysis.emergency_indicators.value
               IN  /\ \E i \in 1..Len(blood_data) :
                          /\ blood_data[i].param = "platelets"
                          /\ analysis.status[i] = Returned("normal")
                   /\ \A j \in 1..Len(emergency.critical_values) :
                          emergency.critical_values[j].parameter # "platelets"
                   /\ \E j \in 1..Len(emergency.urgent_consultation) :
                          emergency.urgent_consultation[j].parameter = "platelets"
                   /\ emergency.emergency_level = "urgent"

\* a response holds a JSON object when its first and last brace are the
\* braces of one object: an outer pair around members only, or the pair of
\* the only member that has braces
HoldsJsonObject(q) ==
    LET braces == {i \in 1..Len(q) : HasBrace(q[i])} IN
    \/ \E i, j \in braces :
           /\ i < j
           /\ q[i] = Open /\ q[j] = Close
           /\ \A k \in braces : i <= k /\ k <= j
           /\ \A k \in (i + 1)..(j - 1) : q[k].c \in {"member", "ws"}
    \/ \E i \in braces : braces = {i} /\ q[i].c = "member"

ModelAnswered ==
    /\ pc \in {"validate", "done", "stored", "analysed"}
    /\ llm_result.type = "str"
    /\ ~Happened("simple failed")

\* C4: when the model's answer holds no JSON object (no pair of braces, or a
\* text between the braces that is not an object), extract_blood_values_with_llm
\* returns what the pattern extractors make of the same text: blood_values from
\* parse_blood_values, patient_info from extract_patient_info, empty units and
\* reference ranges, and nothing of the answer.
C4_UnparseableAnswerFallsBackWhole ==
    (ModelAnswered /\ ~HoldsJsonObject(llm_result.chunks)) =>
        extraction_result =
            PyDict([blood_values |-> Dict(parse_blood_values(text)),
                    patient_info |-> Info(extract_patient_info(text)),
                    units |-> Dict(<<>>),
                    reference_ranges |-> Dict(<<>>)])

\* an answer cut short after its members, for a text with a value and a
\* gender that the answer does not have
C4_Witness ==
    /\ pc = "validate"
    /\ llm_result = Str(<<Open>> \o SampleMembers)
    /\ extraction_result.type = "dict"
    /\ extraction_result.d.blood_values.items # <<>>
    /\ extraction_result.d.blood_values.items # SampleMembers[1].value.items
    /\ extraction_result.d.patient_info = Info("gender" :> "female")

\* C5: when the model answers with prose only and the patterns are run
\* instead, the method identifier of the returned result differs from the one
\* reported when the model's own answer gave the values.
C5_FallbackMethodDiffers ==
    (ReturnedValidated /\ llm_result = Str(<<Prose>>) /\ FellBack) =>
        extraction_results.value.extraction_method # extraction_method(model_choice, FALSE)

AllModelCallsFailed ==
    \/ Happened("gemini failed")
    \/ Happened("openai failed") /\ Happened("simple failed")

\* C6: when the calls to the model fail, for either model choice, no error
\* reaches the caller and the values of the result are those the processor's
\* patterns find in the text (after validation).
C6_ModelFailureFallsBackToPatterns ==
    (Done /\ AllModelCallsFailed) =>
        /\ extraction_results.raised = ""
        /\ "error" \notin DOMAIN extraction_results.value
        /\ extraction_results.value.blood_values =
               validate_extracted_data(Dict(parse_blood_values(text))).value.validated_data

IsList(x) == DOMAIN x = 1..Len(x)

\* C7: get_comprehensive_extraction always returns a dict, with a boolean
\* success and a list of warnings, whatever the file, the model and its
\* answer do; with no value in the result, success is false and there is a
\* warning.
C7_NeverRaises ==
    Done =>
        /\ extraction_results.raised = ""
        /\ extraction_results.value.success \in BOOLEAN
        /\ IsList(extraction_results.value.warnings)
        /\ extraction_results.value.blood_values = <<>> =>
               /\ ~extraction_results.value.success
               /\ extraction_results.value.warnings # <<>>

\* the answer's blood_values holds a value that is not a number: the
\* validator raises, and the caller gets the error dict
C7_Witness ==
    /\ pc = "done"
    /\ extraction_result.type = "dict"
    /\ "blood_values" \in DOMAIN extraction_result.d
    /\ extraction_result.d.blood_values.shape = "dict"
    /\ \E i \in 1..Len(extraction_result.d.blood_values.items) :
           extraction_result.d.blood_values.items[i].kind = "str"
    /\ extraction_results.raised = ""
    /\ extraction_results.value.error = "TypeError"
    /\ ~extraction_results.value.success

\* a value survives validation: it is not null and, if its parameter has a
\* sanity range, it is a number within that range
Survives(e) ==
    /\ e.kind # "null"
    /\ HasSanityRange(e.param) => e.kind = "num" /\ ~OutsideSanity(e)

GivenValues == Get(extraction_result.d, "blood_values", Dict(<<>>)).items

\* C8: in the returned dict success is true exactly when a value is left
\* after validation: the values of the result are the survivors of the
\* extracted values, success says whether there is one, and every dropped
\* number has its warning.
C8_SuccessIffValueSurvives ==
    ReturnedDict =>
        /\ extraction_results.value.success <=> extraction_results.value.blood_values # <<>>
        /\ ReturnedValidated =>
               /\ extraction_results.value.blood_values = SelectSeq(GivenValues, Survives)
               /\ extraction_results.value.success <=>
                      \E i \in 1..Len(GivenValues) : Survives(GivenValues[i])
               /\ \A i \in 1..Len(GivenValues) :
                      (GivenValues[i].kind = "num" /\ ~Survives(GivenValues[i])) =>
                          \E j \in 1..Len(extraction_results.value.warnings) :
                              extraction_results.value.warnings[j] =
                                  Warning(GivenValues[i],
                                          reasonable_ranges[GivenValues[i].param])

\* hemoglobin 150 is dropped with its warning, another value remains, success
C8_Witness ==
    /\ ReturnedValidated
    /\ \E i \in 1..Len(GivenValues) : GivenValues[i] = Entry("hemoglobin", "num", 15000)
    /\ Len(extraction_results.value.blood_values) = 1
    /\ extraction_results.value.warnings =
           <<Warning(Entry("hemoglobin", "num", 15000), reasonable_ranges["hemoglobin"])>>
    /\ extraction_results.value.success

(***************************************************************************)
(* Classification of a value against its normal range.                     *)
(***************************************************************************)
\* a status label without its letter case (the page shows "Low", the
\* recommendation code computes "low")
Folded(label) ==
    CASE label = "Low" -> "low"
      [] label = "High" -> "high"
      [] label = "Normal" -> "normal"
      [] label = "Unknown" -> "unknown"
      [] OTHER -> label

\* what the claim prescribes for a number x and the range looked up for
\* parameter p and gender g
Prescribed(p, x, g) ==
    LET looked_up == get_normal_range(p, g) IN
    IF looked_up.raised # "" THEN "unknown"
    ELSE IF x < looked_up.value[1] THEN "low"
    ELSE IF x > looked_up.value[2] THEN "high"
    ELSE "normal"

Critical(e) == e.kind = "num" /\ is_critical_value(e.param, e.value).is_critical

\* the readings the loop has gone through
Checked == SubSeq(e_call.blood_data, 1, e_i - 1)

Level == emergency_indicators.emergency_level

\* C12: check_emergency_indicators starts at level "normal"; at every point
\* of the call the level is "critical" if and only if one of the readings
\* gone through so far is critical by is_critical_value, so the returned
\* level is "critical" if and only if some reading is; critical_values lists
\* exactly the critical readings, in their order; and once the level is
\* "critical" no later reading and no named rule changes it.
C12_CriticalIffSomeReadingCritical ==
    /\ [](/\ e_pc = "idle" => Level = "normal"
          /\ e_pc # "idle" =>
                LET listed == emergency_indicators.critical_values
                    critical == SelectSeq(Checked, Critical)
                IN  /\ Level = "critical" <=> critical # <<>>
                    /\ Len(listed) = Len(critical)
                    /\ \A k \in 1..Len(listed) :
                          /\ listed[k].parameter = critical[k].param
                          /\ listed[k].value = critical[k].value
          /\ e_pc = "return" => Len(Checked) = Len(e_call.blood_data))
    /\ [][Level = "critical" => emergency_indicators'.emergency_level = "critical"]_vars

\* the agent returns "critical" for a critically low hemoglobin although the
\* platelets rule fired after it
C12_Witness ==
    /\ e_pc = "return"
    /\ e_call.self = "RecommendationAgent"
    /\ Level = "critical"
    /\ Len(e_call.blood_data) = 2
    /\ Len(emergency_indicators.critical_values) = 1
    /\ emergency_indicators.critical_values[1].parameter = "hemoglobin"
    /\ Len(emergency_indicators.urgent_consultation) = 2

Rank(level) == CASE level = "normal" -> 0 [] level = "urgent" -> 1 [] level = "critical" -> 2

\* the severity of one reading: critical, caught by a named rule, or neither
Severity(e) ==
    IF Critical(e) THEN 2
    ELSE IF \/ e.param = "hemoglobin" /\ e.value < 1300
            \/ e.param = "platelets" /\ e.value <= 15000000
            \/ e.param = "hematocrit" /\ e.value > 5500
    THEN 1
    ELSE 0

\* C13: in the agent's check_emergency_indicators the level never decreases
\* in the order normal < urgent < critical from one statement to the next,
\* and the returned level is the greatest severity of a reading: "urgent" if
\* and only if no reading is critical and a named rule fires (hemoglobin
\* below 13.0, platelets at or below 150000, hematocrit above 55).
C13_LevelOnlyRisesToMaxSeverity ==
    /\ [][Rank(emergency_indicators'.emergency_level) >= Rank(Level)]_vars
    /\ [](e_pc = "return" /\ e_call.self = "RecommendationAgent" =>
             LET d == e_call.blood_data
                 severities == {Severity(d[j]) : j \in 1..Len(d)} \cup {0}
             IN  /\ Level = "urgent" <=> (2 \notin severities /\ 1 \in severities)
                 /\ \A n \in severities : Rank(Level) >= n
                 /\ Rank(Level) \in severities)

\* platelets of exactly 150000 alone make the level urgent
C13_Witness ==
    /\ e_pc = "return"
    /\ e_call.self = "RecommendationAgent"
    /\ Level = "urgent"
    /\ \E j \in 1..Len(e_call.blood_data) :
          /\ e_call.blood_data[j].param = "platelets"
          /\ e_call.blood_data[j].value = 15000000
    /\ Len(emergency_indicators.urgent_consultation) = 1

(***************************************************************************)
(* Pattern priority in parse_blood_values.                                 *)
(***************************************************************************)
\* C14: for each parameter, parse_blood_values holds the number captured by
\* the first pattern of its list that matches the text, whatever the later
\* patterns of the list would capture, and a parameter none of whose
\* patterns matches is absent from the result; "Hemoglobin (Hb) 11.2" at the
\* start of a text gives hemoglobin 11.2 whatever numbers follow.
C14_FirstMatchingPatternWins ==
    op = "parse_blood_values" =>
        LET T == call_args.text IN
        /\ DistinctKeys(call_out)
        /\ \A r \in 1..Len(patterns) :
              LET parameter == patterns[r][1]
                  pattern_list == patterns[r][2]
                  matching == {j \in 1..Len(pattern_list) :
                                  re_search(pattern_list[j], T) # NoMatch}
              IN  IF matching = {} THEN ~Has(call_out, parameter)
                  ELSE /\ Has(call_out, parameter)
                       /\ ValueOf(call_out, parameter) =
                              re_search(pattern_list[FirstOf(matching)], T)
        /\ (Len(T) >= 2 /\ T[1] = Lab("Hemoglobin (Hb)") /\ T[2] = Num(1120)) =>
              ValueOf(call_out, "hemoglobin") = 1120

\* the second pattern would capture the 9.0 of an earlier line, the first
\* captures the 11.2 after "Hemoglobin (Hb)", and 11.2 is the result
C14_Witness ==
    /\ op = "parse_blood_values"
    /\ Len(call_args.text) = 4
    /\ re_search(patterns[1][2][1], call_args.text) = 1120
    /\ re_search(patterns[1][2][2], call_args.text) = 900
    /\ Has(call_out, "hemoglobin")
    /\ ValueOf(call_out, "hemoglobin") = 1120

(***************************************************************************)
(* What is parsed of a response string.                                    *)
(***************************************************************************)
\* a response without the blank space and the code-fence markers around it
RECURSIVE Unwrapped(_)
Unwrapped(q) ==
    IF q # <<>> /\ q[1] \in {Ws, Fence, FenceJson} THEN Unwrapped(Tail(q))
    ELSE IF q # <<>> /\ q[Len(q)] \in {Ws, Fence, FenceJson}
    THEN Unwrapped(SubSeq(q, 1, Len(q) - 1))
    ELSE q

ResponseParsed ==
    /\ pc \in {"validate", "done", "stored", "analysed"}
    /\ llm_result.type = "str"
    /\ Happened("parsed") \/ Happened("json error")

\* C15: of every response string, what is parsed is the stretch from the
\* first '{' to the last '}' of the response without the blank space and the
\* code-fence markers around it; a response with prose before a fenced JSON
\* object yields exactly that object; and a response with no '{' before a
\* '}' is a parse failure, answered by the pattern fallback.
C15_ParsedFromFirstToLastBrace ==
    ResponseParsed =>
        LET q == Unwrapped(llm_result.chunks)
            opens == {i \in 1..Len(q) : HasOpen(q[i])}
            closes == {i \in 1..Len(q) : HasClose(q[i])}
            failure == /\ Happened("json error")
                       /\ ~Happened("parsed")
                       /\ extraction_result = PyDict(direct_extraction_fallback(text))
        IN  /\ IF opens = {} \/ closes = {} \/ \A i \in opens, j \in closes : j < i
               THEN failure
               ELSE LET first == FirstOf(opens)
                        last == CHOOSE j \in closes : \A k \in closes : k <= j
                        payload == SubSeq(q, first, last)
                        loaded == json_loads(payload, 1, Len(payload))
                    IN  IF first > last \/ loaded.raised # "" THEN failure
                        ELSE /\ Happened("parsed")
                             /\ ~Happened("json error")
                             /\ extraction_result = loaded.value
            /\ llm_result = Str(<<Prose, Ws, FenceJson, Ws>> \o Object(SampleMembers)
                                    \o <<Ws, Fence>>)
                  => extraction_result = PyDict(members_dict(SampleMembers))

\* prose, then the object in a json fence: the object is what is parsed
C15_Witness ==
    /\ pc = "validate"
    /\ llm_result = Str(<<Prose, Ws, FenceJson, Ws>> \o Object(SampleMembers) \o <<Ws, Fence>>)
    /\ Happened("parsed")
    /\ extraction_result = PyDict(members_dict(SampleMembers))

(***************************************************************************)
(* The patient record of extract_patient_info.                             *)
(***************************************************************************)
InfoCalled == op = "extract_patient_info"

Wordings(T) == {T[i].s : i \in {j \in 1..Len(T) : T[j].k = "lab"}}

C17_TwoCharacterNameAccepted ==
    InfoCalled =>
        LET T == call_args.text
            good == {q \in 1..4 : name_search(q, T) # None /\ Len(name_search(q, T)) >= 2}
        IN  IF good = {} THEN "name" \notin DOMAIN call_out
            ELSE /\ "name" \in DOMAIN call_out
                 /\ call_out.name = name_search(FirstOf(good), T)

\* C18: the record holds a field only when a pattern for that field matched
\* the text, and then with the matched value: an absent field is left out,
\* never present with a null, empty or default value; age, when present, is
\* the non-negative integer of the first age pattern that matches.
C18_OnlyMatchedFieldsPresent ==
    InfoCalled =>
        LET T == call_args.text
            ages == {q \in 1..4 : age_search(q, T) # NoMatch}
        IN  /\ DOMAIN call_out \subseteq {"age", "gender", "name", "test_date"}
            /\ \A key \in DOMAIN call_out \ {"age"} : call_out[key] \notin {None, ""}
            /\ "age" \in DOMAIN call_out <=> ages # {}
            /\ "age" \in DOMAIN call_out =>
                  /\ call_out.age = age_search(FirstOf(ages), T)
                  /\ call_out.age \in Nat
            /\ "gender" \in DOMAIN call_out <=>
                  \E s \in Wordings(T) : GenderWords(s) # {}
            /\ "name" \in DOMAIN call_out =>
                  \E q \in 1..4 : name_search(q, T) = call_out.name
            /\ "test_date" \in DOMAIN call_out <=> \E i \in 1..Len(T) : T[i].k = "date"
            /\ "test_date" \in DOMAIN call_out =>
                  \E i \in 1..Len(T) : T[i].k = "date" /\ T[i].s = call_out.test_date

\* "30 years old Age: 45": the first age pattern gives 45 although the second
\* finds 30 earlier in the text, and no other field is present
C18_Witness ==
    /\ InfoCalled
    /\ age_search(2, call_args.text) = 30
    /\ age_search(1, call_args.text) = 45
    /\ call_out = ("age" :> 45)

(***************************************************************************)
(* Parameters without a reference range.                                   *)
(***************************************************************************)
\* C19: for every parameter that has no entry in NORMAL_RANGES,
\* get_normal_range fails with the unknown-parameter error (ValueError),
\* whatever the gender argument, and returns no range.
C19_UnknownParameterRaises ==
    (op = "get_normal_range" /\ r_param \notin DOMAIN NORMAL_RANGES) =>
        /\ r_out.raised = "ValueError"
        /\ r_out.value = <<>>

\* the table's keys are in lower case: Hemoglobin with a capital is unknown,
\* also when a gender is given
C19_Witness ==
    /\ op = "get_normal_range"
    /\ r_param = "Hemoglobin"
    /\ r_gender = "female"
    /\ r_out = Raised("ValueError")

(***************************************************************************)
(* Bulk classification.                                                    *)
(***************************************************************************)
\* C20: quick_analysis absorbs a parameter without a reference range where
\* it occurs: that parameter is recorded with status "unknown", every other
\* parameter of the batch is classified whatever the others are (critical,
\* else normal inside the range, else abnormal), parameter_status has
\* exactly one entry for every input parameter, and the call never ends
\* with the error result of an aborted batch.
C20_UnknownParameterAbsorbed ==
    op = "quick_analysis" =>
        LET d == call_args.blood_data
        IN  /\ "error" \notin DOMAIN call_out
            /\ DOMAIN call_out.parameter_status = {d[i].param : i \in 1..Len(d)}
            /\ \A i \in 1..Len(d) :
                  LET e == d[i]
                      status == call_out.parameter_status[e.param]
                  IN  /\ e.param \notin DOMAIN NORMAL_RANGES => status = "unknown"
                      /\ (e.param \in DOMAIN NORMAL_RANGES /\ e.kind = "num") =>
                            LET range == get_normal_range(e.param, None).value IN
                            status =
                                IF is_critical_value(e.param, e.value).is_critical
                                THEN "critical"
                                ELSE IF range[1] <= e.value /\ e.value <= range[2]
                                THEN "normal"
                                ELSE "abnormal"

\* an unknown parameter first, then a critically low hemoglobin: the first
\* is unknown and the second is still found critical
C20_Witness ==
    /\ op = "quick_analysis"
    /\ Len(call_args.blood_data) = 2
    /\ call_args.blood_data[1].param = "no_such_parameter"
    /\ call_args.blood_data[2].param = "hemoglobin"
    /\ call_out.parameter_status["no_such_parameter"] = "unknown"
    /\ call_out.parameter_status["hemoglobin"] = "critical"
    /\ call_out.emergency_level = "critical"

(***************************************************************************)
(* The record of is_critical_value.                                        *)
(***************************************************************************)
\* C21: for every parameter, with critical thresholds or without, and every
\* value, is_critical_value returns a record with the three fields
\* is_critical, level and message; without thresholds is_critical is false.
C21_CriticalRecordHasThreeFields ==
    op = "is_critical_value" =>
        /\ DOMAIN c_out = {"is_critical", "level", "message"}
        /\ c_param \notin DOMAIN CRITICAL_VALUES => ~c_out.is_critical


(***************************************************************************)
(* Claims about the processor's pattern methods (SpecProcessor)            *)
(***************************************************************************)
SameCall(a, b) == a.method = b.method /\ a.text = b.text

NoEmbeddedText(f) == \A n \in 1..Len(f.pages) : IsBlank(f.pages[n])

\* C23: extract_text_from_pdf fails with a document-read error when the
\* document cannot be parsed at all, a document with zero pages included, and
\* returns without error a text that holds nothing when the pages carry no
\* embedded text.
C23_ReadErrorOrEmptyText ==
    op = "extract_text_from_pdf" =>
        LET f == call_args.pdf_file IN
        /\ (~f.readable \/ f.pages = <<>>) => call_out.raised = "Error reading PDF"
        /\ (f.readable /\ f.pages # <<>> /\ NoEmbeddedText(f)) =>
               call_out.raised = "" /\ IsBlank(call_out.value)


(***************************************************************************)
(* Claims about the page's session (SpecSession)                           *)
(***************************************************************************)
HoldsAnalysis == "analysis_results" \in DOMAIN session_state

\* C24: after any sequence of uploads, manual fallbacks, analyses and clears,
\* every blood value of a stored extraction result with success = true, and
\* every value that was analysed, has passed the plausibility validator: no
\* value outside its sanity range is among them.
C24_SessionValuesValidated ==
    /\ ResultsShown =>
           \A e \in Entries(session_state.extraction_results.blood_values) : Survives(e)
    /\ HoldsAnalysis =>
           \A e \in Entries(session_state.analysis_results.blood_data) : Survives(e)


\* C25: whenever the session holds analysis results (the analysis, the
\* emergency indicators, the emergency status of the sidebar), they were
\* computed from the blood values of the extraction result held now: after
\* another document is processed the earlier document's analysis results and
\* emergency level are no longer held or shown.
C25_AnalysisOfCurrentExtraction ==
    HoldsAnalysis =>
        /\ "extraction_results" \in DOMAIN session_state
        /\ session_state.analysis_results.blood_data =
               session_state.extraction_results.blood_values
        /\ \/ session_state.analysis_results.emergency_indicators =
                  check_emergency_indicators(session_state.extraction_results.blood_values).value
           \/ session_state.analysis_results.emergency_indicators =
                  page_emergency_loop(session_state.extraction_results.blood_values, 1,
                                      no_indicators).value
        /\ display_emergency_sidebar(session_state) \in
               {check_emergency_indicators(
                    session_state.extraction_results.blood_values).value.emergency_level,
                page_emergency_loop(session_state.extraction_results.blood_values, 1,
                                    no_indicators).value.emergency_level}


LookedUpRanges(p) == NormalVariants(p) \cup {get_normal_range(p, None).value}

\* the thresholds of p lie on or outside the bounds of the range
ThresholdsOutside(p, range) ==
    /\ HasLow(p) => CRITICAL_VALUES[p].critically_low <= range[1]
    /\ HasHigh(p) => CRITICAL_VALUES[p].critically_high >= range[2]

\* C27: every parameter with critical thresholds has a normal range, with
\* critically_low <= the low bound and critically_high >= the high bound of
\* every gender's range and of the combined range; hence a value that
\* is_critical_value flags is classified low or high, never normal, and
\* quick_analysis never counts more critical than abnormal values.
C27_CriticalOutsideNormal ==
    /\ \A p \in DOMAIN CRITICAL_VALUES :
           /\ p \in DOMAIN NORMAL_RANGES
           /\ \A range \in LookedUpRanges(p) : ThresholdsOutside(p, range)
    /\ op = "get_value_status" =>
           LET a == call_args IN
           (a.value.kind = "num" /\ is_critical_value(a.parameter, a.value.value).is_critical)
               => Folded(call_out) \in {"low", "high"}
    /\ (op = "quick_analysis" /\ "error" \notin DOMAIN call_out) =>
           call_out.critical_count <= call_out.abnormal_count

\* quick_analysis counted a critical value, and another value that is
\* outside its range but not critical
C27_Witness ==
    /\ op = "quick_analysis"
    /\ "error" \notin DOMAIN call_out
    /\ call_out.critical_count = 1
    /\ call_out.abnormal_count = 2


(***************************************************************************)
(* Claims about the order of the pipeline's steps (Spec)                   *)
(***************************************************************************)
\* the model was called, or the patterns were run, or an answer was parsed
Invoked ==
    \E i \in 1..Len(trace) :
        trace[i] \in {"openai answered", "openai failed", "simple answered",
                      "simple failed", "gemini answered", "gemini failed",
                      "parsed", "json error", "fallback"}

WhitespaceOnly(T) == \A i \in 1..Len(T) : T[i] = NL

\* the file cannot be read, or its text is empty or whitespace only
NothingToAnalyse ==
    \/ ~pdf_file.readable
    \/ WhitespaceOnly(pages_text(pdf_file.pages))

\* C28: in get_comprehensive_extraction the model and the pattern extractor
\* are invoked only after text extraction has succeeded with non-blank text:
\* for a document that cannot be read or whose text is empty or whitespace
\* only the run ends with success = false, no blood values, no patient
\* information and at least one warning, and neither was ever invoked.
C28_ModelOnlyAfterNonBlankText ==
    /\ []((Invoked \/ pc \in {"call_model", "simple_extraction", "parse", "validate"}) =>
              /\ ~NothingToAnalyse
              /\ text = pages_text(pdf_file.pages))
    /\ []((Done /\ NothingToAnalyse) =>
              /\ ~Invoked
              /\ extraction_results.raised = ""
              /\ ~extraction_results.value.success
              /\ extraction_results.value.blood_values = <<>>
              /\ extraction_results.value.patient_info = Info(<<>>)
              /\ extraction_results.value.warnings # <<>>)
    /\ [][(~Invoked /\ Invoked') => (pc # "start" /\ ~WhitespaceOnly(text))]_vars

\* a readable document whose page holds line breaks only: the run has ended
\* without a call
C28_Witness ==
    /\ pc = "done"
    /\ pdf_file.readable
    /\ pdf_file.pages = << <<NL, NL>> >>
    /\ ~Invoked
    /\ ~extraction_results.value.success


(***************************************************************************)
(* Claims about the validator's output as a part of its input (SpecRef)    *)
(***************************************************************************)
\* the readings of the input that are not null and are not in the output
AbsentFrom(validated_data) ==
    {i \in 1..Len(v_data.items) :
        v_data.items[i].kind # "null" /\ v_data.items[i] \notin Entries(validated_data)}

\* C29: the output of validate_extracted_data is a sub-mapping of its input:
\* every output parameter has the value it had in the input, no output value
\* is null, a null input value is dropped without a warning, and there are as
\* many warnings as non-null input values that are absent from the output.
C29_OutputIsSubMapping ==
    ValidateReturned =>
        LET out == v_out.value IN
        /\ \A k \in Entries(out.validated_data) :
               k \in Entries(v_data.items) /\ k.kind # "null"
        /\ DistinctKeys(out.validated_data)
        /\ \A e \in Entries(v_data.items) :
               e.kind = "null" =>
                   /\ \A k \in Entries(out.validated_data) : k.param # e.param
                   /\ WarningsFor(out.warnings, e.param) = {}
        /\ Len(out.warnings) = Cardinality(AbsentFrom(out.validated_data))

\* a null for a parameter without sanity range and a number outside its
\* sanity range: neither is in the output, and there is one warning
C29_Witness ==
    /\ ValidateReturned
    /\ v_data.items = <<Entry("mcv", "null", 0), Entry("hemoglobin", "num", 2501)>>
    /\ v_out.value.validated_data = <<>>
    /\ Len(v_out.value.warnings) = 1


(***************************************************************************)
(* Claims about the order of the gender checks (SpecRef)                   *)
(***************************************************************************)
\* wordings with a whole-word male token (male, or an m standing alone) and
\* with a whole-word female token (female, or an f standing alone)
MaleTokens == {"Male", "male", "M", "Sex : Male", "Yash M. Patel", "Male / Female"}

FemaleTokens == {"Female", "female", "FEMALE", "F", "Sex : Female", "Male / Female"}

\* C30: in extract_patient_info the male check precedes the female check: a
\* text with a whole-word male token and a whole-word female token gives
\* 'male' whichever comes first, and the gender is 'female' only when no
\* whole-word male token occurs anywhere in the text.
C30_MaleCheckFirst ==
    InfoCalled =>
        LET male == Wordings(call_args.text) \cap MaleTokens # {}
            female == Wordings(call_args.text) \cap FemaleTokens # {}
        IN  /\ (male /\ female) => Get(call_out, "gender", None) = "male"
            /\ Get(call_out, "gender", None) = "female" => (female /\ ~male)
            /\ (female /\ ~male) => Get(call_out, "gender", None) = "female"

\* a female token on the first line, an m standing alone on the second
C30_Witness ==
    /\ InfoCalled
    /\ call_args.text = <<Lab("F"), NL, Lab("Yash M. Patel")>>
    /\ call_out.gender = "male"

====
